---- MODULE Spec2Model ----
(***************************************************************************)
(* swim: certificate-transparency ingestion pipeline.                      *)
(*   websocket -> rawMessages -> MessageProcessor -> domains ->            *)
(*   DbInsertWorker -> store, supervised by main (signal-driven shutdown). *)
(* Strings the code inspects character by character (domain names) are     *)
(* sequences of one-character strings; JSON values are tagged records.     *)
(***************************************************************************)
EXTENDS Integers, Sequences, FiniteSets, TLC

(***************************************************************************)
(* Bounds of the model.                                                    *)
(***************************************************************************)
\* capacity of the two buffered channels (100 in main; scaled down)
QueueCap == 1
\* frames the upstream delivers in one run
MaxFrames == 2
\* store faults (failed Begin / insert / Commit / Rollback) injected in one run
MaxFaults == 1
\* most rows of a table found at startup
MaxOldRows == 1
\* the limit of the limit-based limiter (100 in server.go:71; scaled down)
Limit == 2
\* requests counted beyond the limit within one window
MaxOver == 2
\* largest configured batch size in the frame-level specification
MaxBatchSize == 2
\* the configured batch size of the pipeline specification (default 1000; scaled down)
PipeBatchSize == 2
\* longest all_domains list of a generated frame
MaxDomains == 3
\* store faults injected in one run of the writer-level specification
MaxWriterFaults == 3
\* rl.resetTime, in clock ticks
ResetTime == 1
\* last tick of the clock
MaxNow == 2
\* cap on the count of one entry of rl.visits
MaxCount == 65
\* bits of a Go int on the 64-bit builds
IntBits == 64
\* requests in flight at once in the middleware
MaxRequests == 3
\* rows in the store when the routes start serving
MaxStoredRows == 3

(***************************************************************************)
(* Strings as character sequences.                                         *)
(***************************************************************************)
\* p is a suffix of d
IsSuffix(p, d) ==
    Len(p) <= Len(d) /\ SubSeq(d, Len(d) - Len(p) + 1, Len(d)) = p

HasPrefix(s, p) == Len(s) >= Len(p) /\ SubSeq(s, 1, Len(p)) = p

TrimPrefix(s, p) == IF HasPrefix(s, p) THEN SubSeq(s, Len(p) + 1, Len(s)) ELSE s

RECURSIVE Count(_, _)
Count(s, ch) ==
    IF s = <<>> THEN 0
    ELSE (IF Head(s) = ch THEN 1 ELSE 0) + Count(Tail(s), ch)

\* strings.Split(s, "."): the labels of s, empty labels included
RECURSIVE SplitFrom(_, _, _)
SplitFrom(s, cur, acc) ==
    IF s = <<>> THEN Append(acc, cur)
    ELSE IF Head(s) = "." THEN SplitFrom(Tail(s), <<>>, Append(acc, cur))
    ELSE SplitFrom(Tail(s), Append(cur, Head(s)), acc)

Split(s) == SplitFrom(s, <<>>, <<>>)

RECURSIVE Join(_)
Join(parts) ==
    IF parts = <<>> THEN <<>>
    ELSE IF Len(parts) = 1 THEN parts[1]
    ELSE parts[1] \o <<".">> \o Join(Tail(parts))

WildcardPrefix == <<"*", ".">>

(***************************************************************************)
(* JSON values of the upstream envelope.                                   *)
(* t: "str" | "num" | "obj" | "arr" | "absent" (key missing or null).      *)
(* A number keeps its integer part (toward zero) and whether it has a      *)
(* fractional part.                                                        *)
(***************************************************************************)
JStr(v) == [t |-> "str", s |-> v, n |-> 0, frac |-> FALSE]
JNum(i, f) == [t |-> "num", s |-> "", n |-> i, frac |-> f]
JAbsent == [t |-> "absent", s |-> "", n |-> 0, frac |-> FALSE]

\* an element of all_domains: a string (character sequence) or something else
EStr(d) == [t |-> "str", d |-> d]
ENum == [t |-> "num", d |-> <<>>]

JArr(a) == [t |-> "arr", a |-> a]
JNotArr(tag) == [t |-> tag, a |-> <<>>]

ExtKeys == {"keyUsage", "extendedKeyUsage", "subjectKeyIdentifier",
            "authorityKeyIdentifier", "authorityInfoAccess",
            "subjectAltName", "certificatePolicies"}

NoExt == [t |-> "absent", f |-> [k \in ExtKeys |-> JAbsent]]

\* int64(x) of a float64: the fractional part is discarded
ToInt64(v) == v.n

(***************************************************************************)
(* A frame: the result of json.Unmarshal into map[string]interface{} and   *)
(* of the type assertions on m["data"] and data["leaf_cert"].              *)
(*   json      : the bytes decode into a JSON object                       *)
(*   data      : "obj" when m["data"] is an object, else another tag       *)
(*   leaf_cert : "obj" when data["leaf_cert"] is an object                 *)
(* The remaining fields are the members of leaf_cert.                      *)
(***************************************************************************)
MkFrame(js, data, leaf, doms, nb, na, sn, fp, ext) ==
    [json |-> js, data |-> data, leaf_cert |-> leaf, all_domains |-> doms,
     not_before |-> nb, not_after |-> na, serial_number |-> sn,
     fingerprint |-> fp, extensions |-> ext]

\* the optional string members of leaf_cert.extensions (part_002:93-115)
ExtField(leafCert, key) ==
    IF leafCert.extensions.t = "obj" /\ leafCert.extensions.f[key].t = "str"
    THEN leafCert.extensions.f[key].s
    ELSE ""

\* the unchecked type assertions of part_002:87-90 panic on a wrong type
AssertionsPanic(leafCert) ==
    \/ leafCert.not_before.t # "num"
    \/ leafCert.not_after.t # "num"
    \/ leafCert.serial_number.t # "str"
    \/ leafCert.fingerprint.t # "str"

\* variant: NotBefore and NotAfter read from each other's member
NewDomainInfo_SwappedTimes(leafCert, domain, domainFlags) ==
    [Domain |-> domain,
     NotBefore |-> ToInt64(leafCert.not_after),
     NotAfter |-> ToInt64(leafCert.not_before),
     SerialNumber |-> leafCert.serial_number.s,
     Fingerprint |-> leafCert.fingerprint.s,
     KeyUsage |-> ExtField(leafCert, "keyUsage"),
     ExtendedKeyUsage |-> ExtField(leafCert, "extendedKeyUsage"),
     SubjectKeyID |-> ExtField(leafCert, "subjectKeyIdentifier"),
     AuthorityKeyID |-> ExtField(leafCert, "authorityKeyIdentifier"),
     AuthorityInfo |-> ExtField(leafCert, "authorityInfoAccess"),
     SubjectAltName |-> ExtField(leafCert, "subjectAltName"),
     CertificatePolicies |-> ExtField(leafCert, "certificatePolicies"),
     Wildcard |-> domain \in domainFlags]

\* the DomainInfo built for one non-wildcard entry (part_002:85-118)
NewDomainInfo(leafCert, domain, domainFlags) ==
    [Domain |-> domain,
     NotBefore |-> ToInt64(leafCert.not_before),
     NotAfter |-> ToInt64(leafCert.not_after),
     SerialNumber |-> leafCert.serial_number.s,
     Fingerprint |-> leafCert.fingerprint.s,
     KeyUsage |-> ExtField(leafCert, "keyUsage"),
     ExtendedKeyUsage |-> ExtField(leafCert, "extendedKeyUsage"),
     SubjectKeyID |-> ExtField(leafCert, "subjectKeyIdentifier"),
     AuthorityKeyID |-> ExtField(leafCert, "authorityKeyIdentifier"),
     AuthorityInfo |-> ExtField(leafCert, "authorityInfoAccess"),
     SubjectAltName |-> ExtField(leafCert, "subjectAltName"),
     CertificatePolicies |-> ExtField(leafCert, "certificatePolicies"),
     Wildcard |-> domain \in domainFlags]

\* the loop over all_domains (part_002:76-122) from position i on;
\* domainFlags is filled while the records are emitted
RECURSIVE DomainLoop(_, _, _, _)
DomainLoop(leafCert, i, domainFlags, acc) ==
    LET domainsList == leafCert.all_domains.a IN
    IF i > Len(domainsList) THEN [panic |-> FALSE, recs |-> acc]
    ELSE LET e == domainsList[i] IN
         IF e.t # "str" THEN DomainLoop(leafCert, i + 1, domainFlags, acc)
         ELSE IF HasPrefix(e.d, WildcardPrefix)
         THEN DomainLoop(leafCert, i + 1,
                         domainFlags \cup {TrimPrefix(e.d, WildcardPrefix)}, acc)
         ELSE IF AssertionsPanic(leafCert) THEN [panic |-> TRUE, recs |-> acc]
         ELSE DomainLoop(leafCert, i + 1, domainFlags,
                         Append(acc, NewDomainInfo(leafCert, e.d, domainFlags)))

\* the body of the range loop for one message, up to the batch-size test
\* (part_002:65-125): the records appended to batch, or a panic
ProcessMessage(m) ==
    IF ~m.json THEN [panic |-> FALSE, recs |-> <<>>]
    ELSE IF m.data # "obj" THEN [panic |-> FALSE, recs |-> <<>>]
    ELSE IF m.leaf_cert # "obj" THEN [panic |-> FALSE, recs |-> <<>>]
    ELSE IF m.all_domains.t # "arr" THEN [panic |-> FALSE, recs |-> <<>>]
    ELSE DomainLoop(m, 1, {}, <<>>)

(***************************************************************************)
(* The frames fed to the model.                                            *)
(***************************************************************************)
D_ac == <<"a", ".", "c">>
D_bac == <<"b", ".", "a", ".", "c">>
D_c == <<"c">>
W_ac == WildcardPrefix \o D_ac

GoodExt == [t |-> "obj",
            f |-> [k \in ExtKeys |-> IF k = "keyUsage" THEN JStr("ku")
                                     ELSE IF k = "subjectAltName" THEN JNum(7, FALSE)
                                     ELSE JAbsent]]

GoodFrame(doms) ==
    MkFrame(TRUE, "obj", "obj", JArr(doms), JNum(10, FALSE), JNum(20, FALSE),
            JStr("sn"), JStr("fp"), GoodExt)

InvalidJSON ==
    MkFrame(FALSE, "absent", "absent", JNotArr("absent"), JAbsent, JAbsent,
            JAbsent, JAbsent, NoExt)

\* one deviation from a good single-domain frame at a time
ShapeFrames ==
    LET g == GoodFrame(<<EStr(D_ac)>>) IN
    {InvalidJSON}
    \cup {[InvalidJSON EXCEPT !.json = TRUE, !.data = tg] : tg \in {"absent", "str"}}
    \cup {[InvalidJSON EXCEPT !.json = TRUE, !.data = "obj", !.leaf_cert = tg] :
             tg \in {"absent", "str"}}
    \cup {[g EXCEPT !.all_domains = JNotArr(tg)] : tg \in {"absent", "str"}}
    \cup {[g EXCEPT !.not_before = v] : v \in {JStr("x"), JAbsent, JNum(10, TRUE)}}
    \cup {[g EXCEPT !.not_after = v] : v \in {JStr("x"), JAbsent, JNum(20, TRUE)}}
    \cup {[g EXCEPT !.serial_number = v] : v \in {JNum(1, FALSE), JAbsent}}
    \cup {[g EXCEPT !.fingerprint = v] : v \in {JNum(1, FALSE), JAbsent}}
    \cup {[g EXCEPT !.extensions = NoExt]}

Entries == {EStr(D_ac), EStr(W_ac), EStr(D_bac), ENum}

DomainLists == UNION {[1..n -> Entries] : n \in 0..MaxDomains}

ListFrames == {GoodFrame(l) : l \in DomainLists}

AllFrames == ShapeFrames \cup ListFrames

\* the frames the upstream sends in the pipeline specification
PipeFrames == {GoodFrame(<<EStr(D_ac)>>), InvalidJSON}


(***************************************************************************)
(* The store: the rows of table domains.                                   *)
(***************************************************************************)
\* the apex test with two dots for one
isApexDomain_TwoDots(domain) == Count(domain, ".") = 2

\* isApexDomain (part_003:294-298)
isApexDomain(domain) == Count(domain, ".") = 1

\* the parent taken from the first two labels
getParentDomain_FirstTwo(domain) ==
    LET parts == Split(domain) IN
    IF Len(parts) > 2 THEN Join(SubSeq(parts, 1, 2))
    ELSE <<>>

\* getParentDomain (part_003:301-307)
getParentDomain(domain) ==
    LET parts == Split(domain) IN
    IF Len(parts) > 2 THEN Join(SubSeq(parts, Len(parts) - 1, Len(parts)))
    ELSE <<>>

\* INSERT OR REPLACE for INSERT OR IGNORE
InsertOrIgnore_Replace(rows, domainInfo) ==
    {r \in rows : r.Domain # domainInfo.Domain}
        \cup {[ID |-> Cardinality(rows) + 1,
                Domain |-> domainInfo.Domain,
                IsApex |-> isApexDomain(domainInfo.Domain),
                ParentDomain |-> getParentDomain(domainInfo.Domain),
                NotBefore |-> domainInfo.NotBefore,
                NotAfter |-> domainInfo.NotAfter,
                SerialNumber |-> domainInfo.SerialNumber,
                Fingerprint |-> domainInfo.Fingerprint,
                KeyUsage |-> domainInfo.KeyUsage,
                ExtendedKeyUsage |-> domainInfo.ExtendedKeyUsage,
                SubjectKeyID |-> domainInfo.SubjectKeyID,
                AuthorityKeyID |-> domainInfo.AuthorityKeyID,
                AuthorityInfo |-> domainInfo.AuthorityInfo,
                SubjectAltName |-> domainInfo.SubjectAltName,
                CertificatePolicies |-> domainInfo.CertificatePolicies,
                Wildcard |-> domainInfo.Wildcard]}

\* one INSERT OR IGNORE (part_003:114, 120-128): ignored when the domain exists
InsertOrIgnore(rows, domainInfo) ==
    IF \E r \in rows : r.Domain = domainInfo.Domain THEN rows
    ELSE rows \cup {[ID |-> Cardinality(rows) + 1,
                     Domain |-> domainInfo.Domain,
                     IsApex |-> isApexDomain(domainInfo.Domain),
                     ParentDomain |-> getParentDomain(domainInfo.Domain),
                     NotBefore |-> domainInfo.NotBefore,
                     NotAfter |-> domainInfo.NotAfter,
                     SerialNumber |-> domainInfo.SerialNumber,
                     Fingerprint |-> domainInfo.Fingerprint,
                     KeyUsage |-> domainInfo.KeyUsage,
                     ExtendedKeyUsage |-> domainInfo.ExtendedKeyUsage,
                     SubjectKeyID |-> domainInfo.SubjectKeyID,
                     AuthorityKeyID |-> domainInfo.AuthorityKeyID,
                     AuthorityInfo |-> domainInfo.AuthorityInfo,
                     SubjectAltName |-> domainInfo.SubjectAltName,
                     CertificatePolicies |-> domainInfo.CertificatePolicies,
                     Wildcard |-> domainInfo.Wildcard]}

\* insertBatch without error (part_003:113-135): the rows in batch order
RECURSIVE insertBatch(_, _)
insertBatch(rows, b) ==
    IF b = <<>> THEN rows
    ELSE insertBatch(InsertOrIgnore(rows, Head(b)), Tail(b))

\* the record the Message Processor builds for a frame listing only d
RecOf(d, sn) ==
    ProcessMessage([GoodFrame(<<EStr(d)>>) EXCEPT !.serial_number = JStr(sn)]).recs[1]

(***************************************************************************)
(* The queries of the HTTP handlers over the rows of table domains.        *)
(***************************************************************************)
\* the characters of the model in byte order
Bytes == <<"*", "+", "-", ".", "0", "1", "2", "a", "b", "c", "w", "x">>

Ord(ch) == CHOOSE i \in 1..Len(Bytes) : Bytes[i] = ch

\* s < t in the BINARY collation of a TEXT column: byte by byte
RECURSIVE Less(_, _)
Less(s, t) ==
    IF t = <<>> THEN FALSE
    ELSE IF s = <<>> THEN TRUE
    ELSE IF Head(s) # Head(t) THEN Ord(Head(s)) < Ord(Head(t))
    ELSE Less(Tail(s), Tail(t))

\* the rows of a set in ascending order of id, as a table scan yields them
RECURSIVE ByRowid(_)
ByRowid(rows) ==
    IF rows = {} THEN <<>>
    ELSE LET r == CHOOSE x \in rows : \A y \in rows : x.ID <= y.ID
         IN <<r>> \o ByRowid(rows \ {r})

\* the rows of a set in ascending order of domain: ORDER BY domain, and a
\* scan of the index of the UNIQUE column
RECURSIVE ByDomain(_)
ByDomain(rows) ==
    IF rows = {} THEN <<>>
    ELSE LET r == CHOOSE x \in rows :
                     \A y \in rows : x = y \/ Less(x.Domain, y.Domain)
         IN <<r>> \o ByDomain(rows \ {r})

\* the orders in which a SELECT without ORDER BY may yield rows
ScanOrders == {"rowid", "domain"}

Scan(rows, order) == IF order = "rowid" THEN ByRowid(rows) ELSE ByDomain(rows)

\* LIMIT size OFFSET offset: a negative limit is no limit, a negative offset
\* is offset 0
LimitOffset(seq, size, offset) ==
    LET from == (IF offset < 0 THEN 0 ELSE offset) + 1
        to == IF size < 0 \/ from + size - 1 > Len(seq) THEN Len(seq)
              ELSE from + size - 1
    IN SubSeq(seq, from, to)

Column(seq, field) == [i \in 1..Len(seq) |-> seq[i][field]]

WwwPrefix == <<"w", "w", "w", ".">>

\* FetchDomainNamesFromDatabase without error (part_003:220-253): the chunk
\* sent to the channel
FetchDomainNamesFromDatabase(rows, page, size, order) ==
    LET offset == (page - 1) * size
        hits == {r \in rows : r.IsApex /\ ~HasPrefix(r.Domain, WwwPrefix)}
    IN Column(LimitOffset(Scan(hits, order), size, offset), "Domain")

\* FetchDomainData without error (part_003:137-189)
FetchDomainData(rows, page, size) ==
    LET offset == (page - 1) * size
    IN LimitOffset(ByDomain(rows), size, offset)

\* the subdomains matched by the suffix of the name
FetchDomainWithSubdomains_BySuffix(rows, domain, order) ==
    [Domain |-> domain,
     Subdomains |->
        Column(Scan({r \in rows : IsSuffix(<<".">> \o domain, r.Domain)},
                    order), "Domain")]

\* FetchDomainWithSubdomains without error (part_003:191-218)
FetchDomainWithSubdomains(rows, domain, order) ==
    [Domain |-> domain,
     Subdomains |->
        Column(Scan({r \in rows : r.ParentDomain = domain}, order), "Domain")]

\* FetchCertUpdatesFromDatabase, which part_001:179 calls: the records in
\* ascending order of domain, one page of them
FetchCertUpdatesFromDatabase(rows, page, size) ==
    FetchDomainData(rows, page, size)

\* FetchSubdomainsFromDatabase, which part_001:196 calls: the requested
\* domain and the rows whose parent_domain it is
FetchSubdomainsFromDatabase(rows, domain, order) ==
    FetchDomainWithSubdomains(rows, domain, order)

(***************************************************************************)
(* Query parameters (part_001:210-220).                                    *)
(***************************************************************************)
IsDigit(ch) == ch \in {"0", "1", "2"}

RECURSIVE Digits(_, _)
\* the value of a string of digits after the value acc of the digits before
Digits(s, acc) ==
    IF s = <<>> THEN acc
    ELSE Digits(Tail(s), 10 * acc + (Ord(Head(s)) - Ord("0")))

\* strconv.Atoi on a string short of overflow: an optional sign and one or
\* more decimal digits
Atoi(s) ==
    LET signed == s # <<>> /\ Head(s) \in {"+", "-"}
        body == IF signed THEN Tail(s) ELSE s
    IN IF body = <<>> \/ \E i \in 1..Len(body) : ~IsDigit(body[i])
       THEN [err |-> TRUE, n |-> 0]
       ELSE [err |-> FALSE,
             n |-> IF signed /\ Head(s) = "-" THEN 0 - Digits(body, 0)
                   ELSE Digits(body, 0)]

\* c.DefaultQuery: the value of the key, or the default when the key is absent
DefaultQuery(value, default) == IF value = <<>> THEN default ELSE value[1]

\* a parse that takes the default size when size does not parse
parseQueryParams_SizeDefaulted(page, size) ==
    LET p == Atoi(DefaultQuery(page, <<"1">>))
        z == Atoi(DefaultQuery(size, <<"1", "0", "0", "0">>))
    IN IF p.err THEN [err |-> TRUE, page |-> 0, size |-> 0]
       ELSE [err |-> FALSE, page |-> p.n, size |-> IF z.err THEN 1000 ELSE z.n]

\* parseQueryParams (part_001:210-220)
parseQueryParams(page, size) ==
    LET p == Atoi(DefaultQuery(page, <<"1">>))
        z == Atoi(DefaultQuery(size, <<"1", "0", "0", "0">>))
    IN IF p.err \/ z.err THEN [err |-> TRUE, page |-> 0, size |-> 0]
       ELSE [err |-> FALSE, page |-> p.n, size |-> z.n]

\* a response: the request it answers, the status, whether the body is a JSON
\* error object, the chunks written otherwise, whether the store was asked
\* and whether its query failed
Response(route, page, size, domain, status, error, chunks, queried, failed) ==
    [route |-> route, page |-> page, size |-> size, domain |-> domain,
     status |-> status, error |-> error, chunks |-> chunks,
     queried |-> queried, failed |-> failed]

NoResponse == Response("", <<>>, <<>>, <<>>, 0, FALSE, <<>>, FALSE, FALSE)

(***************************************************************************)
(* State.                                                                  *)
(***************************************************************************)
VARIABLES
    proc,           \* "running" | "exit0" | "fatal" (log.Fatal) | "panic"
    batchSize,      \* swimCfg.Database.BatchSize
    feed,           \* the inputs of this run: "pipe" (few) | "all"
    \* main
    supPc,          \* "sigwait" | "shutdown" | "closeStop" | "closeRaw" |
                    \* "closeDomains" | "wait" | "done"
    steps,          \* history: the shutdown steps main has performed
    stopProcessing, \* TRUE once close(stopProcessing) ran
    rawMessages,    \* buffer of channel rawMessages
    rawClosed,
    domains,        \* buffer of channel domains
    domainsClosed,
    \* HTTP server task
    srvPc,          \* "starting" | "serving" | "done"
    srvShut,        \* srv.Shutdown was called
    \* ListenForEvents
    lPc,            \* "top" | "dial" | "sleep" | "read" | "send" | "done" | "panic"
    message,        \* <<frame>> read and not yet sent, else <<>>
    nFrames,        \* frames read so far
    connRead,       \* history: frames read on the current connection
    connEnq,        \* history: frames of the current connection sent to rawMessages
    failed,        \* history: a dial failure or a read error has happened
    \* MessageProcessor
    mpPc,           \* "recv" | "send" | "flush" | "done" | "panic"
    batch,
    mpFrame,        \* history: <<frame>> last taken from rawMessages
    mpOut,          \* history: records appended to batch for mpFrame
    nSent,          \* history: batches handed to channel domains
    \* DbInsertWorker
    wPc,            \* "recv" | "begin" | "insert" | "commit" | "rollback" |
                    \* "sleep" | "after" | "done"
    wBatch,
    attempt,
    outerErr,       \* err of part_003:81, tested at part_003:107
    tx,             \* <<rows>> as seen inside the open transaction, else <<>>
    store,          \* committed rows
    faults,         \* store faults still to be injected in this run
    wCommitted,     \* history: the current batch was committed
    wLogs,          \* history: log lines written for the current batch
    fate,           \* history: per batch taken by the writer, its outcome
    \* history of the shutdown
    sigBatch,       \* batch of the Message Processor when the signal arrived
    sigResolved,    \* Len(fate) when the signal arrived
    \* RateLimiter
    visits,         \* rl.visits: per client IP, visited and {count, lastUpdate}
    now,            \* the clock, in ticks
    resp,           \* history: the last request the middleware handled
    \* RateLimiter, one goroutine per request
    mu,             \* rl.mu: 0 when free, else the request that holds it
    reqs,           \* per request: its position, clientIP, decision and the
                    \* time and count it read
    serial,         \* history: rl.visits had each request run alone, at the
                    \* time of its lookup
    \* HTTP handlers
    handlers,       \* the StartServer in use: "part_001" | "server.go"
    hresp,          \* history: the last request a route handled and its
                    \* response
    \* main before the tasks start
    mainPc,         \* "logfile" | "config" | "help" | "cert" | "dbdir" | "db" |
                    \* "start" | "started"
    env,            \* the flag and the files main finds
    mainOut,        \* what main has printed or logged: "instructions" and
                    \* the messages of its log.Fatalf calls
    \* history of the records
    admitted,       \* history: per client IP, the requests admitted since its
                    \* entry was created or last reset
    schema,         \* table domains in the database file: whether it exists,
                    \* its columns and the number of its rows at startup
    flow            \* extracted: the records built from the frames, in the
                    \* order built; handed: the batches sent to domains

supVars == <<supPc, steps, stopProcessing, rawClosed, domainsClosed, srvShut,
             sigBatch, sigResolved>>
srvVars == <<srvPc>>
lVars == <<lPc, message, nFrames, connRead, connEnq, failed>>
mpVars == <<mpPc, batch, mpFrame, mpOut, nSent>>
wVars == <<wPc, wBatch, attempt, outerErr, tx, store, faults, wCommitted,
           wLogs, fate>>
rcVars == <<mu, reqs, serial>>
rlVars == <<visits, now, resp, rcVars>>
httpVars == <<handlers, hresp>>
mainVars == <<mainPc, env, mainOut>>
vars == <<proc, batchSize, feed, supVars, srvVars, lVars, mpVars, wVars,
          rawMessages, domains, rlVars, httpVars, mainVars,
          flow, admitted, schema, schema>>

\* the tasks run: main has started them and the process has not ended
Running == proc = "running" /\ mainPc = "started"

\* the columns of CREATE TABLE domains (part_003:16-35)
Columns ==
    {"id", "domain", "is_apex", "parent_domain", "not_before", "not_after",
     "serial_number", "fingerprint", "key_usage", "extended_key_usage",
     "subject_key_id", "authority_key_id", "authority_info",
     "subject_alt_name", "certificate_policies", "wildcard"}

NoTable == [exists |-> FALSE, columns |-> {}, rows |-> 0]

\* the tables of earlier versions: the whole schema, or one of the later
\* columns missing
OldColumns ==
    {Columns, Columns \ {"parent_domain"}, Columns \ {"wildcard"}}

\* what a database file can hold when main starts
Databases(file) ==
    IF file = "present"
    THEN {NoTable}
         \cup {[exists |-> TRUE, columns |-> c, rows |-> n] :
                  c \in OldColumns, n \in 0..MaxOldRows}
    ELSE {NoTable}

\* SetupDatabase without an error (part_003:15-74): CREATE TABLE IF NOT
\* EXISTS, then ALTER TABLE ADD COLUMN parent_domain when PRAGMA table_info
\* lists no such column
SetupDatabase(db) ==
    LET created == IF db.exists THEN db
                   ELSE [exists |-> TRUE, columns |-> Columns, rows |-> 0]
    IN IF "parent_domain" \in created.columns THEN created
       ELSE [created EXCEPT !.columns = @ \cup {"parent_domain"}]

\* what main can find at startup: the -h flag, the cert directory and its two
\* files, and the database file: missing, present, or present and not
\* openable as a database
Environments ==
    [help : BOOLEAN, certDir : BOOLEAN, certFile : BOOLEAN, keyFile : BOOLEAN,
     dbFile : {"missing", "present", "unopenable"}]

\* main found all it needs and has started the tasks (main.go:357-476)
Started ==
    /\ mainPc = "started"
    /\ env = [help |-> FALSE, certDir |-> TRUE, certFile |-> TRUE,
              keyFile |-> TRUE, dbFile |-> "present"]
    /\ mainOut = {}
    /\ schema = SetupDatabase(NoTable)

(***************************************************************************)
(* RateLimiter (part_001:21-71).                                           *)
(***************************************************************************)
ClientIPs == {"ip1", "ip2"}

NoVisit == [visited |-> FALSE, count |-> 0, lastUpdate |-> 0]

\* int(math.Pow(2, float64(count-1))) (part_001:55). 2^(count-1) is exact in
\* a float64; it fits an int up to 2^(IntBits-2). From 2^(IntBits-1) on the
\* conversion is out of range and its result depends on the build: the
\* smallest int (amd64) or the largest int (arm64).
allowedCount(count) ==
    IF count - 1 < IntBits - 1
    THEN {[kind |-> "exact", exp |-> count - 1]}
    ELSE {[kind |-> "minInt", exp |-> 0], [kind |-> "maxInt", exp |-> 0]}

\* the reject test with >= for >
CountExceeds_AtLeast(count, allowed) ==
    CASE allowed.kind = "minInt" -> TRUE
      [] allowed.kind = "maxInt" -> FALSE
      [] OTHER -> allowed.exp < 31 /\ count >= 2^allowed.exp

\* data.count > allowedCount (part_001:60), for count < 2^31
CountExceeds(count, allowed) ==
    CASE allowed.kind = "minInt" -> TRUE
      [] allowed.kind = "maxInt" -> FALSE
      [] OTHER -> allowed.exp < 31 /\ count > 2^allowed.exp

Requests == 1..MaxRequests

IdleRequest == [pc |-> "idle", ip |-> "", branch |-> "", count |-> 0, t |-> 0]

\* no request is in the middleware
NoRequests ==
    /\ mu = 0
    /\ reqs = [r \in Requests |-> IdleRequest]
    /\ serial = visits

\* the branch the handler takes for entry data at time t (part_001:47-66)
Branch(data, t, allowed) ==
    IF ~data.visited THEN "new"
    ELSE IF t - data.lastUpdate > ResetTime THEN "reset"
    ELSE IF CountExceeds(data.count, allowed) THEN "reject"
    ELSE "admit"

\* the entry a branch leaves (part_001:48, 58-59, 65), count being the
\* data.count the request read
Updated(data, branch, count, t) ==
    CASE branch \in {"new", "reset"} ->
            [visited |-> TRUE, count |-> 1, lastUpdate |-> t]
      [] branch = "admit" -> [data EXCEPT !.count = count + 1]
      [] OTHER -> data

\* NewRateLimiter (part_001:33-39): an empty map; no request handled yet
NewRateLimiter ==
    /\ visits = [ip \in ClientIPs |-> NoVisit]
    /\ now = 0
    /\ resp = [ip |-> "", status |-> 0, branch |-> "", seq |-> 0]
    /\ NoRequests
    /\ admitted = [ip \in ClientIPs |-> 0]

Respond(ip, status, branch) ==
    [ip |-> ip, status |-> status, branch |-> branch, seq |-> 1 - resp.seq]

BatchSizes == 0..MaxBatchSize

\* nothing extracted, nothing handed downstream
NoFlow == [extracted |-> <<>>, handed |-> <<>>]

\* the tasks and the channels as main creates them
InitTasks ==
    /\ proc = "running"
    /\ supPc = "sigwait" /\ steps = <<>>
    /\ stopProcessing = FALSE /\ rawClosed = FALSE /\ domainsClosed = FALSE
    /\ domains = <<>>
    /\ srvShut = FALSE
    /\ message = <<>> /\ nFrames = 0
    /\ connRead = <<>> /\ connEnq = <<>> /\ failed = FALSE
    /\ mpPc = "recv" /\ batch = <<>> /\ mpFrame = <<>> /\ mpOut = <<>>
    /\ nSent = 0
    /\ wPc = "recv" /\ wBatch = <<>> /\ attempt = 0 /\ outerErr = FALSE
    /\ tx = <<>> /\ store = {}
    /\ wCommitted = FALSE /\ wLogs = {} /\ fate = <<>>
    /\ sigBatch = <<>> /\ sigResolved = 0
    /\ hresp = NoResponse
    /\ flow = NoFlow

InitCommon == InitTasks /\ Started

\* main has started the four tasks and waits for a signal (main.go:457-487)
Init ==
    /\ InitCommon
    /\ NewRateLimiter
    /\ handlers = "part_001"
    /\ batchSize = PipeBatchSize
    /\ feed = "pipe"
    /\ faults = MaxFaults
    /\ rawMessages = <<>>
    /\ srvPc = "starting"
    /\ lPc = "top"


(***************************************************************************)
(* main: the shutdown sequence (main.go:482-503).                          *)
(***************************************************************************)
\* <-sigs returns (main.go:487)
SupSignal ==
    /\ Running /\ supPc = "sigwait"
    /\ supPc' = "shutdown"
    /\ sigBatch' = batch
    /\ sigResolved' = Len(fate)
    /\ UNCHANGED <<proc, batchSize, feed, mainVars, flow, admitted, schema, rlVars, httpVars, steps, stopProcessing, rawClosed,
                   domainsClosed, srvShut, srvVars, lVars, mpVars, wVars,
                   rawMessages, domains>>

\* srv.Shutdown(ctx) with the 5-second deadline (main.go:491-495): it returns
\* nil, or the context's error when handlers are still running at the deadline,
\* and then log.Fatal exits the process
SupShutdown ==
    /\ Running /\ supPc = "shutdown"
    /\ srvShut' = TRUE
    /\ \E ok \in BOOLEAN :
          IF ok
          THEN /\ supPc' = "closeStop"
               /\ steps' = Append(steps, "shutdown")
               /\ proc' = proc
          ELSE /\ proc' = "fatal"
               /\ UNCHANGED <<supPc, steps>>
    /\ UNCHANGED <<batchSize, feed, mainVars, flow, admitted, schema, rlVars, httpVars, stopProcessing, rawClosed, domainsClosed,
                   sigBatch, sigResolved, srvVars, lVars, mpVars, wVars,
                   rawMessages, domains>>

\* close(stopProcessing) (main.go:498)
SupCloseStop ==
    /\ Running /\ supPc = "closeStop"
    /\ stopProcessing' = TRUE
    /\ steps' = Append(steps, "closeStop")
    /\ supPc' = "closeRaw"
    /\ UNCHANGED <<proc, batchSize, feed, mainVars, flow, admitted, schema, rlVars, httpVars, rawClosed, domainsClosed, srvShut,
                   sigBatch, sigResolved, srvVars, lVars, mpVars, wVars,
                   rawMessages, domains>>

\* variant: the two close statements swapped
SupCloseRaw_DomainsFirst ==
    /\ Running /\ supPc = "closeRaw"
    /\ domainsClosed' = TRUE
    /\ steps' = Append(steps, "closeDomains")
    /\ supPc' = "wait"
    /\ UNCHANGED <<proc, batchSize, feed, mainVars, flow, admitted, schema, rlVars, httpVars, stopProcessing, rawClosed, srvShut,
                   sigBatch, sigResolved, srvVars, lVars, mpVars, wVars,
                   rawMessages, domains>>

\* close(rawMessages) (main.go:499)
SupCloseRaw ==
    /\ Running /\ supPc = "closeRaw"
    /\ rawClosed' = TRUE
    /\ steps' = Append(steps, "closeRaw")
    /\ supPc' = "closeDomains"
    /\ UNCHANGED <<proc, batchSize, feed, mainVars, flow, admitted, schema, rlVars, httpVars, stopProcessing, domainsClosed, srvShut,
                   sigBatch, sigResolved, srvVars, lVars, mpVars, wVars,
                   rawMessages, domains>>

\* close(domains) (main.go:500)
SupCloseDomains ==
    /\ Running /\ supPc = "closeDomains"
    /\ domainsClosed' = TRUE
    /\ steps' = Append(steps, "closeDomains")
    /\ supPc' = "wait"
    /\ UNCHANGED <<proc, batchSize, feed, mainVars, flow, admitted, schema, rlVars, httpVars, stopProcessing, rawClosed, srvShut,
                   sigBatch, sigResolved, srvVars, lVars, mpVars, wVars,
                   rawMessages, domains>>

AllTasksDone ==
    lPc = "done" /\ mpPc = "done" /\ wPc = "done" /\ srvPc = "done"

\* wg.Wait() returns and main returns (main.go:502-504)
SupWait ==
    /\ Running /\ supPc = "wait"
    /\ AllTasksDone
    /\ steps' = Append(steps, "wait")
    /\ supPc' = "done"
    /\ proc' = "exit0"
    /\ UNCHANGED <<batchSize, feed, mainVars, flow, admitted, schema, rlVars, httpVars, stopProcessing, rawClosed, domainsClosed, srvShut,
                   sigBatch, sigResolved, srvVars, lVars, mpVars, wVars,
                   rawMessages, domains>>

(***************************************************************************)
(* The HTTP server task (part_001:136-143).                                *)
(***************************************************************************)
\* ListenAndServeTLS binds the port, or fails and log.Fatalf exits
SrvListen ==
    /\ Running /\ srvPc = "starting" /\ ~srvShut
    /\ \E ok \in BOOLEAN :
          IF ok THEN srvPc' = "serving" /\ proc' = proc
          ELSE proc' = "fatal" /\ srvPc' = srvPc
    /\ UNCHANGED <<batchSize, feed, mainVars, flow, admitted, schema, rlVars, httpVars, supVars, lVars, mpVars, wVars, rawMessages, domains>>

\* after Shutdown was called ListenAndServeTLS returns ErrServerClosed
SrvDone ==
    /\ Running /\ srvPc \in {"starting", "serving"} /\ srvShut
    /\ srvPc' = "done"
    /\ UNCHANGED <<proc, batchSize, feed, mainVars, flow, admitted, schema, rlVars, httpVars, supVars, lVars, mpVars, wVars,
                   rawMessages, domains>>

(***************************************************************************)
(* ListenForEvents (part_002:31-57).                                       *)
(***************************************************************************)
\* the select at the top of the outer loop (part_002:34-37)
ListenTop ==
    /\ Running /\ lPc = "top"
    /\ lPc' = IF stopProcessing THEN "done" ELSE "dial"
    /\ UNCHANGED <<proc, batchSize, feed, mainVars, flow, admitted, schema, rlVars, httpVars, supVars, srvVars, message, nFrames,
                   connRead, connEnq, failed, mpVars, wVars, rawMessages, domains>>

\* ConnectToCertStream (part_002:38-43)
ListenDial ==
    /\ Running /\ lPc = "dial"
    /\ \E ok \in BOOLEAN :
          lPc' = IF ok THEN "read" ELSE "sleep"
    /\ connRead' = <<>> /\ connEnq' = <<>>
    /\ UNCHANGED <<proc, batchSize, feed, mainVars, flow, admitted, schema, rlVars, httpVars, supVars, srvVars, message, nFrames, failed,
                   mpVars, wVars, rawMessages, domains>>

\* time.Sleep(5 * time.Second); continue (part_002:41-42)
ListenSleep ==
    /\ Running /\ lPc = "sleep"
    /\ lPc' = "top"
    /\ failed' = TRUE
    /\ UNCHANGED <<proc, batchSize, feed, mainVars, flow, admitted, schema, rlVars, httpVars, supVars, srvVars, message, nFrames,
                   connRead, connEnq, mpVars, wVars, rawMessages, domains>>

\* the frames the websocket may deliver next
Upstream == IF feed = "all" /\ nFrames = 0 THEN AllFrames ELSE PipeFrames

\* c.ReadMessage() returns a frame (part_002:47)
ListenRead ==
    /\ Running /\ lPc = "read"
    /\ nFrames < MaxFrames
    /\ \E f \in Upstream :
          /\ message' = <<f>>
          /\ connRead' = Append(connRead, f)
    /\ nFrames' = nFrames + 1
    /\ lPc' = "send"
    /\ UNCHANGED <<proc, batchSize, feed, mainVars, flow, admitted, schema, rlVars, httpVars, supVars, srvVars, connEnq, failed,
                   mpVars, wVars, rawMessages, domains>>

\* variant: return instead of break on a read error
ListenReadErr_Return ==
    /\ Running /\ lPc = "read"
    /\ lPc' = "done"
    /\ failed' = TRUE
    /\ UNCHANGED <<proc, batchSize, feed, mainVars, flow, admitted, schema, rlVars, httpVars, supVars, srvVars, message, nFrames,
                   connRead, connEnq, mpVars, wVars, rawMessages, domains>>

\* c.ReadMessage() returns an error: c.Close(); break (part_002:48-52)
ListenReadErr ==
    /\ Running /\ lPc = "read"
    /\ lPc' = "top"
    /\ failed' = TRUE
    /\ UNCHANGED <<proc, batchSize, feed, mainVars, flow, admitted, schema, rlVars, httpVars, supVars, srvVars, message, nFrames,
                   connRead, connEnq, mpVars, wVars, rawMessages, domains>>

\* variant: a non-blocking send that drops the frame when the buffer is full
ListenSend_DropWhenFull ==
    /\ Running /\ lPc = "send"
    /\ IF rawClosed
       THEN /\ proc' = "panic" /\ lPc' = "panic"
            /\ UNCHANGED <<message, connEnq, rawMessages>>
       ELSE /\ IF Len(rawMessages) < QueueCap
               THEN /\ rawMessages' = Append(rawMessages, message[1])
                    /\ connEnq' = Append(connEnq, message[1])
               ELSE UNCHANGED <<rawMessages, connEnq>>
            /\ message' = <<>>
            /\ lPc' = "read"
            /\ proc' = proc
    /\ UNCHANGED <<batchSize, feed, mainVars, flow, admitted, schema, rlVars, httpVars, supVars, srvVars, nFrames, connRead, failed,
                   mpVars, wVars, domains>>

\* variant: a channel without a capacity
ListenSend_Unbounded ==
    /\ Running /\ lPc = "send"
    /\ IF rawClosed
       THEN /\ proc' = "panic" /\ lPc' = "panic"
            /\ UNCHANGED <<message, connEnq, rawMessages>>
       ELSE /\ rawMessages' = Append(rawMessages, message[1])
            /\ connEnq' = Append(connEnq, message[1])
            /\ message' = <<>>
            /\ lPc' = "read"
            /\ proc' = proc
    /\ UNCHANGED <<batchSize, feed, mainVars, flow, admitted, schema, rlVars, httpVars, supVars, srvVars, nFrames, connRead, failed,
                   mpVars, wVars, domains>>

\* rawMessages <- message (part_002:53): blocks while the buffer is full,
\* panics when the channel is closed
ListenSend ==
    /\ Running /\ lPc = "send"
    /\ IF rawClosed
       THEN /\ proc' = "panic" /\ lPc' = "panic"
            /\ UNCHANGED <<message, connEnq, rawMessages>>
       ELSE /\ Len(rawMessages) < QueueCap
            /\ rawMessages' = Append(rawMessages, message[1])
            /\ connEnq' = Append(connEnq, message[1])
            /\ message' = <<>>
            /\ lPc' = "read"
            /\ proc' = proc
    /\ UNCHANGED <<batchSize, feed, mainVars, flow, admitted, schema, rlVars, httpVars, supVars, srvVars, nFrames, connRead, failed,
                   mpVars, wVars, domains>>


(***************************************************************************)
(* MessageProcessor (part_002:60-138).                                     *)
(***************************************************************************)
\* one iteration of "for message := range rawMessages" up to the batch-size
\* test (part_002:64-128); a message that is not JSON ends the iteration
\* with "continue" before the test (part_002:66-69)
MPRecv ==
    /\ Running /\ mpPc = "recv"
    /\ rawMessages # <<>>
    /\ LET m == Head(rawMessages)
           r == ProcessMessage(m)
       IN /\ rawMessages' = Tail(rawMessages)
          /\ mpFrame' = <<m>>
          /\ mpOut' = r.recs
          /\ batch' = batch \o r.recs
          /\ flow' = [flow EXCEPT !.extracted = @ \o r.recs]
          /\ IF r.panic
             THEN proc' = "panic" /\ mpPc' = "panic"
             ELSE /\ proc' = proc
                  /\ mpPc' = IF m.json /\ Len(batch') >= batchSize
                              THEN "send" ELSE "recv"
    /\ UNCHANGED <<batchSize, feed, mainVars, admitted, schema, rlVars, httpVars, supVars, srvVars, lVars, nSent, wVars, domains>>

\* domains <- batch; batch = make(...) (part_002:129-130): blocks while the
\* buffer is full, panics when the channel is closed
MPSend ==
    /\ Running /\ mpPc = "send"
    /\ IF domainsClosed
       THEN /\ proc' = "panic" /\ mpPc' = "panic"
            /\ UNCHANGED <<batch, nSent, domains, flow>>
       ELSE /\ Len(domains) < QueueCap
            /\ domains' = Append(domains, batch)
            /\ flow' = [flow EXCEPT !.handed = Append(@, batch)]
            /\ nSent' = nSent + 1
            /\ batch' = <<>>
            /\ mpPc' = "recv"
            /\ proc' = proc
    /\ UNCHANGED <<batchSize, feed, mainVars, admitted, schema, rlVars, httpVars, supVars, srvVars, lVars, mpFrame, mpOut, wVars,
                   rawMessages>>

\* the range loop ends: rawMessages is closed and drained (part_002:64, 135)
MPRangeEnd ==
    /\ Running /\ mpPc = "recv"
    /\ rawMessages = <<>> /\ rawClosed
    /\ mpPc' = IF Len(batch) > 0 THEN "flush" ELSE "done"
    /\ UNCHANGED <<proc, batchSize, feed, mainVars, flow, admitted, schema, rlVars, httpVars, supVars, srvVars, lVars, batch, mpFrame,
                   mpOut, nSent, wVars, rawMessages, domains>>

\* the final domains <- batch (part_002:135-137)
MPFlush ==
    /\ Running /\ mpPc = "flush"
    /\ IF domainsClosed
       THEN /\ proc' = "panic" /\ mpPc' = "panic"
            /\ UNCHANGED <<nSent, domains, flow>>
       ELSE /\ Len(domains) < QueueCap
            /\ domains' = Append(domains, batch)
            /\ flow' = [flow EXCEPT !.handed = Append(@, batch)]
            /\ nSent' = nSent + 1
            /\ mpPc' = "done"
            /\ proc' = proc
    /\ UNCHANGED <<batchSize, feed, mainVars, admitted, schema, rlVars, httpVars, supVars, srvVars, lVars, batch, mpFrame, mpOut,
                   wVars, rawMessages>>

(***************************************************************************)
(* DbInsertWorker (part_003:77-111).                                       *)
(***************************************************************************)
\* "for batch := range domains" takes the next batch (part_003:80-82)
WRecv ==
    /\ Running /\ wPc = "recv"
    /\ domains # <<>>
    /\ wBatch' = Head(domains)
    /\ domains' = Tail(domains)
    /\ attempt' = 0
    /\ outerErr' = FALSE
    /\ wCommitted' = FALSE /\ wLogs' = {}
    /\ wPc' = "begin"
    /\ UNCHANGED <<proc, batchSize, feed, mainVars, flow, admitted, schema, rlVars, httpVars, supVars, srvVars, lVars, mpVars, tx, store,
                   faults, fate, rawMessages>>

\* the range loop ends: domains is closed and drained (part_003:80, 111)
WRangeEnd ==
    /\ Running /\ wPc = "recv"
    /\ domains = <<>> /\ domainsClosed
    /\ wPc' = "done"
    /\ UNCHANGED <<proc, batchSize, feed, mainVars, flow, admitted, schema, rlVars, httpVars, supVars, srvVars, lVars, mpVars, wBatch,
                   attempt, outerErr, tx, store, faults, wCommitted, wLogs, fate,
                   rawMessages, domains>>

\* the position after "continue" or after the sleep: attempt++ and the loop test
NextAttempt(a) == IF a + 1 < 3 THEN "begin" ELSE "after"

\* tx, err := db.Begin() (part_003:84-88); on error: log, continue
WBegin ==
    /\ Running /\ wPc = "begin"
    /\ \/ /\ tx' = <<store>>
          /\ wPc' = "insert"
          /\ UNCHANGED <<attempt, faults, wLogs>>
       \/ /\ faults > 0
          /\ faults' = faults - 1
          /\ wLogs' = wLogs \cup {"Error starting transaction"}
          /\ attempt' = attempt + 1
          /\ wPc' = NextAttempt(attempt)
          /\ tx' = tx
    /\ UNCHANGED <<proc, batchSize, feed, mainVars, flow, admitted, schema, rlVars, httpVars, supVars, srvVars, lVars, mpVars, wBatch,
                   outerErr, store, wCommitted, fate, rawMessages, domains>>

\* an insert outside the transaction: the rows reach the store at once
WInsert_Autocommit ==
    /\ Running /\ wPc = "insert"
    /\ \/ /\ tx' = <<insertBatch(tx[1], wBatch)>>
          /\ store' = insertBatch(store, wBatch)
          /\ wPc' = "commit"
          /\ faults' = faults
       \/ /\ faults > 0
          /\ faults' = faults - 1
          /\ \E k \in 0..Len(wBatch) :
                /\ k < Len(wBatch) \/ k = 0
                /\ tx' = <<insertBatch(tx[1], SubSeq(wBatch, 1, k))>>
          /\ wPc' = "rollback"
          /\ store' = store
    /\ UNCHANGED <<proc, batchSize, feed, mainVars, flow, admitted, schema, rlVars, httpVars, supVars, srvVars, lVars, mpVars, wBatch,
                   attempt, outerErr, wCommitted, wLogs, fate,
                   rawMessages, domains>>

\* err = insertBatch(tx, batch) (part_003:90, 113-135): all rows inserted, or
\* an error after the first k rows
WInsert ==
    /\ Running /\ wPc = "insert"
    /\ \/ /\ tx' = <<insertBatch(tx[1], wBatch)>>
          /\ wPc' = "commit"
          /\ faults' = faults
       \/ /\ faults > 0
          /\ faults' = faults - 1
          /\ \E k \in 0..Len(wBatch) :
                /\ k < Len(wBatch) \/ k = 0
                /\ tx' = <<insertBatch(tx[1], SubSeq(wBatch, 1, k))>>
          /\ wPc' = "rollback"
    /\ UNCHANGED <<proc, batchSize, feed, mainVars, flow, admitted, schema, rlVars, httpVars, supVars, srvVars, lVars, mpVars, wBatch,
                   attempt, outerErr, store, wCommitted, wLogs, fate,
                   rawMessages, domains>>

\* tx.Commit(); break (part_003:93-96); on error: log, and break all the same
WCommit ==
    /\ Running /\ wPc = "commit"
    /\ \/ /\ store' = tx[1]
          /\ wCommitted' = TRUE
          /\ UNCHANGED <<faults, wLogs>>
       \/ /\ faults > 0
          /\ faults' = faults - 1
          /\ wLogs' = wLogs \cup {"Error committing transaction"}
          /\ UNCHANGED <<store, wCommitted>>
    /\ tx' = <<>>
    /\ wPc' = "after"
    /\ UNCHANGED <<proc, batchSize, feed, mainVars, flow, admitted, schema, rlVars, httpVars, supVars, srvVars, lVars, mpVars, wBatch,
                   attempt, outerErr, fate, rawMessages, domains>>

\* a rollback that writes the rows of the failed attempt to the store
WRollback_CommitsPartial ==
    /\ Running /\ wPc = "rollback"
    /\ store' = tx[1]
    /\ tx' = <<>>
    /\ wLogs' = wLogs \cup {"Retry: Error inserting batch"}
    /\ wPc' = "sleep"
    /\ UNCHANGED <<proc, batchSize, feed, mainVars, flow, admitted, schema, rlVars, httpVars, supVars, srvVars, lVars, mpVars, wBatch,
                   attempt, outerErr, faults, wCommitted, fate, rawMessages,
                   domains>>

\* a retry without the rollback: the transaction stays open
WRollback_LeavesOpen ==
    /\ Running /\ wPc = "rollback"
    /\ wLogs' = wLogs \cup {"Retry: Error inserting batch"}
    /\ wPc' = "sleep"
    /\ UNCHANGED <<proc, batchSize, feed, mainVars, flow, admitted, schema, rlVars, httpVars, supVars, srvVars, lVars, mpVars, wBatch,
                   attempt, outerErr, tx, store, faults, wCommitted, fate,
                   rawMessages, domains>>

\* tx.Rollback() and the retry log line (part_003:99-104)
WRollback ==
    /\ Running /\ wPc = "rollback"
    /\ tx' = <<>>
    /\ \/ /\ wLogs' = wLogs \cup {"Retry: Error inserting batch"}
          /\ faults' = faults
       \/ /\ faults > 0
          /\ faults' = faults - 1
          /\ wLogs' = wLogs \cup {"Error rolling back transaction",
                                   "Retry: Error inserting batch"}
    /\ wPc' = "sleep"
    /\ UNCHANGED <<proc, batchSize, feed, mainVars, flow, admitted, schema, rlVars, httpVars, supVars, srvVars, lVars, mpVars, wBatch,
                   attempt, outerErr, store, wCommitted, fate, rawMessages,
                   domains>>

\* time.Sleep(time.Second * 2) and the next iteration (part_003:105, 82)
WSleep ==
    /\ Running /\ wPc = "sleep"
    /\ attempt' = attempt + 1
    /\ wPc' = NextAttempt(attempt)
    /\ UNCHANGED <<proc, batchSize, feed, mainVars, flow, admitted, schema, rlVars, httpVars, supVars, srvVars, lVars, mpVars, wBatch,
                   outerErr, tx, store, faults, wCommitted, wLogs, fate,
                   rawMessages, domains>>

\* a Writer that returns after a batch it could not commit
WAfter_StopOnFailure ==
    /\ Running /\ wPc = "after"
    /\ fate' = Append(fate, [committed |-> wCommitted, logs |-> wLogs])
    /\ wPc' = IF wCommitted THEN "recv" ELSE "done"
    /\ UNCHANGED <<proc, batchSize, feed, mainVars, flow, admitted, schema, rlVars, httpVars, supVars, srvVars, lVars, mpVars, wBatch,
                   attempt, outerErr, tx, store, faults, wCommitted, wLogs,
                   rawMessages, domains>>

\* "if err != nil" on the outer err (part_003:107-109), which the inner
\* "tx, err :=" shadows, so that it is still nil here
WAfter ==
    /\ Running /\ wPc = "after"
    /\ LET logs == IF outerErr THEN wLogs \cup {"Final error after retries"}
                   ELSE wLogs
       IN fate' = Append(fate, [committed |-> wCommitted, logs |-> logs])
    /\ wPc' = "recv"
    /\ UNCHANGED <<proc, batchSize, feed, mainVars, flow, admitted, schema, rlVars, httpVars, supVars, srvVars, lVars, mpVars, wBatch,
                   attempt, outerErr, tx, store, faults, wCommitted, wLogs,
                   rawMessages, domains>>

(***************************************************************************)
(* The rate-limit middleware (part_001:41-71), one request per step: the   *)
(* lookup, the decision and the update run under rl.mu.                    *)
(***************************************************************************)
\* time passes
Tick ==
    /\ Running /\ now < MaxNow
    /\ now' = now + 1
    /\ UNCHANGED <<proc, batchSize, feed, mainVars, flow, admitted, schema, httpVars, supVars, srvVars, lVars, mpVars, wVars,
                   rawMessages, domains, visits, resp, rcVars>>

\* a reset that leaves lastUpdate as it was
RateLimit_ResetKeepsAnchor ==
    /\ Running /\ srvPc = "serving"
    /\ \E clientIP \in ClientIPs :
          LET data == visits[clientIP] IN
          IF ~data.visited
          THEN /\ visits' = [visits EXCEPT ![clientIP] =
                    [visited |-> TRUE, count |-> 1, lastUpdate |-> now]]
               /\ resp' = Respond(clientIP, 200, "new")
          ELSE \E allowed \in allowedCount(data.count) :
                 IF now - data.lastUpdate > ResetTime
                 THEN /\ visits' = [visits EXCEPT ![clientIP].count = 1]
                      /\ resp' = Respond(clientIP, 200, "reset")
                 ELSE IF CountExceeds(data.count, allowed)
                 THEN /\ resp' = Respond(clientIP, 429, "reject")
                      /\ visits' = visits
                 ELSE /\ data.count < MaxCount
                      /\ visits' = [visits EXCEPT ![clientIP].count = data.count + 1]
                      /\ resp' = Respond(clientIP, 200, "admit")
    /\ UNCHANGED <<proc, batchSize, feed, mainVars, flow, admitted, schema, httpVars, supVars, srvVars, lVars, mpVars, wVars,
                   rawMessages, domains, now, rcVars>>

\* variant: a rejected request moves the anchor of the window
RateLimit_RejectTouches ==
    /\ Running /\ srvPc = "serving"
    /\ \E clientIP \in ClientIPs :
          LET data == visits[clientIP] IN
          IF ~data.visited
          THEN /\ visits' = [visits EXCEPT ![clientIP] =
                    [visited |-> TRUE, count |-> 1, lastUpdate |-> now]]
               /\ resp' = Respond(clientIP, 200, "new")
          ELSE \E allowed \in allowedCount(data.count) :
                 IF now - data.lastUpdate > ResetTime
                 THEN /\ visits' = [visits EXCEPT ![clientIP].count = 1,
                                                  ![clientIP].lastUpdate = now]
                      /\ resp' = Respond(clientIP, 200, "reset")
                 ELSE IF CountExceeds(data.count, allowed)
                 THEN /\ resp' = Respond(clientIP, 429, "reject")
                      /\ visits' = [visits EXCEPT ![clientIP].lastUpdate = now]
                 ELSE /\ data.count < MaxCount
                      /\ visits' = [visits EXCEPT ![clientIP].count = data.count + 1]
                      /\ resp' = Respond(clientIP, 200, "admit")
    /\ UNCHANGED <<proc, batchSize, feed, mainVars, flow, admitted, schema, httpVars, supVars, srvVars, lVars, mpVars, wVars,
                   rawMessages, domains, now, rcVars>>

\* one request through the middleware: 200 stands for c.Next()
RateLimit ==
    /\ Running /\ srvPc = "serving"
    /\ \E clientIP \in ClientIPs :
          LET data == visits[clientIP] IN
          IF ~data.visited
          THEN /\ visits' = [visits EXCEPT ![clientIP] =
                    [visited |-> TRUE, count |-> 1, lastUpdate |-> now]]
               /\ resp' = Respond(clientIP, 200, "new")
          ELSE \E allowed \in allowedCount(data.count) :
                 IF now - data.lastUpdate > ResetTime
                 THEN /\ visits' = [visits EXCEPT ![clientIP].count = 1,
                                                  ![clientIP].lastUpdate = now]
                      /\ resp' = Respond(clientIP, 200, "reset")
                 ELSE IF CountExceeds(data.count, allowed)
                 THEN /\ resp' = Respond(clientIP, 429, "reject")
                      /\ visits' = visits
                 ELSE /\ data.count < MaxCount
                      /\ visits' = [visits EXCEPT ![clientIP].count = data.count + 1]
                      /\ resp' = Respond(clientIP, 200, "admit")
    /\ UNCHANGED <<proc, batchSize, feed, mainVars, flow, admitted, schema, httpVars, supVars, srvVars, lVars, mpVars, wVars,
                   rawMessages, domains, now, rcVars>>

(***************************************************************************)
(* The rate-limit middleware (part_001:41-71) with concurrent requests,    *)
(* one goroutine each, statement by statement.                             *)
(***************************************************************************)
\* a request arrives: clientIP := c.ClientIP() (part_001:43); the requests
\* are numbered in the order of their arrival
RLArrive ==
    /\ Running /\ srvPc = "serving"
    /\ \E r \in Requests, clientIP \in ClientIPs :
          /\ reqs[r].pc = "idle"
          /\ \A q \in 1..(r - 1) : reqs[q].pc # "idle"
          /\ reqs' = [reqs EXCEPT ![r].pc = "lock", ![r].ip = clientIP]
    /\ UNCHANGED <<proc, batchSize, feed, mainVars, flow, admitted, schema, httpVars, supVars, srvVars, lVars, mpVars, wVars,
                   rawMessages, domains, visits, now, resp, mu, serial>>

\* a Lock that does not wait for the holder
RLLock_NoExclusion ==
    /\ Running
    /\ \E r \in Requests :
          /\ reqs[r].pc = "lock"
          /\ mu' = r
          /\ reqs' = [reqs EXCEPT ![r].pc = "lookup"]
    /\ UNCHANGED <<proc, batchSize, feed, mainVars, flow, admitted, schema, httpVars, supVars, srvVars, lVars, mpVars, wVars,
                   rawMessages, domains, visits, now, resp, serial>>

\* rl.mu.Lock() (part_001:45)
RLLock ==
    /\ Running
    /\ \E r \in Requests :
          /\ reqs[r].pc = "lock"
          /\ mu = 0
          /\ mu' = r
          /\ reqs' = [reqs EXCEPT ![r].pc = "lookup"]
    /\ UNCHANGED <<proc, batchSize, feed, mainVars, flow, admitted, schema, httpVars, supVars, srvVars, lVars, mpVars, wVars,
                   rawMessages, domains, visits, now, resp, serial>>

\* the lookup and the tests (part_001:46-47, 55-57, 60): the request reads
\* the entry and settles its branch
RLLookup ==
    /\ Running
    /\ \E r \in Requests :
          /\ reqs[r].pc = "lookup"
          /\ LET ip == reqs[r].ip IN
             \E allowed \in allowedCount(visits[ip].count) :
                /\ reqs' = [reqs EXCEPT
                      ![r].pc = "update",
                      ![r].branch = Branch(visits[ip], now, allowed),
                      ![r].count = visits[ip].count,
                      ![r].t = now]
                /\ serial' = [serial EXCEPT ![ip] =
                      Updated(serial[ip], Branch(serial[ip], now, allowed),
                              serial[ip].count, now)]
    /\ UNCHANGED <<proc, batchSize, feed, mainVars, flow, admitted, schema, httpVars, supVars, srvVars, lVars, mpVars, wVars,
                   rawMessages, domains, visits, now, resp, mu>>

\* the write of the branch (part_001:48, 58-59, 61, 65)
RLUpdate ==
    /\ Running
    /\ \E r \in Requests :
          /\ reqs[r].pc = "update"
          /\ visits' = [visits EXCEPT ![reqs[r].ip] =
                Updated(visits[reqs[r].ip], reqs[r].branch, reqs[r].count,
                        reqs[r].t)]
          /\ reqs' = [reqs EXCEPT ![r].pc = "unlock"]
    /\ UNCHANGED <<proc, batchSize, feed, mainVars, flow, admitted, schema, httpVars, supVars, srvVars, lVars, mpVars, wVars,
                   rawMessages, domains, now, resp, mu, serial>>

\* rl.mu.Unlock() and c.Next(), or return after the abort (part_001:49-51,
\* 62-63, 68-69)
RLUnlock ==
    /\ Running
    /\ \E r \in Requests :
          /\ reqs[r].pc = "unlock"
          /\ mu' = IF mu = r THEN 0 ELSE mu
          /\ reqs' = [reqs EXCEPT ![r].pc =
                IF reqs[r].branch = "reject" THEN "aborted" ELSE "next"]
    /\ UNCHANGED <<proc, batchSize, feed, mainVars, flow, admitted, schema, httpVars, supVars, srvVars, lVars, mpVars, wVars,
                   rawMessages, domains, visits, now, resp, serial>>

(***************************************************************************)
(* The routes (part_001:98-123, 161-207; server/server.go:76-113,          *)
(* 134-152), one request per step, after the middleware has admitted it.   *)
(***************************************************************************)
D_bc == <<"b", ".", "c">>
D_wwwc == <<"w", "w", "w", ".", "c">>

HRecords == {RecOf(D_ac, "sn"), RecOf(D_bc, "sn"), RecOf(D_wwwc, "sn"),
             RecOf(D_bac, "sn"), RecOf(D_c, "sn")}

\* the :domain of a request, by the inputs of the run
RequestDomains == IF feed = "all" THEN {D_ac, D_bac, D_c} ELSE {D_ac}

\* the sequences of at most n records without a repeated domain
HBatches(n) ==
    UNION {{b \in [1..k -> HRecords] :
              \A i, j \in 1..k : i # j => b[i].Domain # b[j].Domain} :
           k \in 0..n}

\* the stores a run of the Writer can have left
Stores == {insertBatch({}, b) : b \in HBatches(MaxStoredRows)}

\* values of the query keys, by the inputs of the run: absent, or present
\* with a string
PageValues ==
    IF feed = "all"
       THEN {<<>>, <<<<"2">>>>, <<<<"0">>>>, <<<<"x">>>>, <<<<>>>>}
       ELSE {<<>>}

SizeValues ==
    IF feed = "all" THEN {<<>>, <<<<"1">>>>, <<<<"1", "x">>>>} ELSE {<<<<"1">>>>}

\* GET /v1/domains (part_001:98-106, 161-173, 148-159;
\* server/server.go:76-84, 134-152): the handler writes status 200 before
\* the fetch, and streams the chunk if the fetch sends one
DomainsRoute ==
    /\ Running /\ srvPc = "serving"
    /\ \E page \in PageValues, size \in SizeValues, fail \in BOOLEAN,
          order \in ScanOrders :
          LET q == parseQueryParams(page, size) IN
          hresp' =
            IF q.err
            THEN Response("domains", page, size, <<>>, 400, TRUE, <<>>, FALSE,
                          FALSE)
            ELSE IF fail
            THEN Response("domains", page, size, <<>>, 200, FALSE, <<>>, TRUE,
                          TRUE)
            ELSE Response("domains", page, size, <<>>, 200, FALSE,
                    <<FetchDomainNamesFromDatabase(store, q.page, q.size,
                                                   order)>>,
                    TRUE, FALSE)
    /\ UNCHANGED <<proc, batchSize, feed, mainVars, flow, admitted, schema, rlVars, handlers, supVars, srvVars,
                   lVars, mpVars, wVars, rawMessages, domains>>

\* GET /v1/cert-updates (part_001:109-117, 175-190, 148-159: status 200
\* before the fetch; server/server.go:87-101: 500 when the fetch fails)
CertUpdatesRoute ==
    /\ Running /\ srvPc = "serving"
    /\ \E page \in PageValues, size \in SizeValues, fail \in BOOLEAN :
          LET q == parseQueryParams(page, size)
              rows == IF handlers = "part_001"
                      THEN FetchCertUpdatesFromDatabase(store, q.page, q.size)
                      ELSE FetchDomainData(store, q.page, q.size)
          IN
          hresp' =
            IF q.err
            THEN Response("cert-updates", page, size, <<>>, 400, TRUE, <<>>,
                          FALSE, FALSE)
            ELSE IF ~fail
            THEN Response("cert-updates", page, size, <<>>, 200, FALSE,
                          <<rows>>, TRUE, FALSE)
            ELSE IF handlers = "part_001"
            THEN Response("cert-updates", page, size, <<>>, 200, FALSE, <<>>,
                          TRUE, TRUE)
            ELSE Response("cert-updates", page, size, <<>>, 500, TRUE, <<>>,
                          TRUE, TRUE)
    /\ UNCHANGED <<proc, batchSize, feed, mainVars, flow, admitted, schema, rlVars, handlers, supVars, srvVars,
                   lVars, mpVars, wVars, rawMessages, domains>>

\* GET /v1/subdomains/:domain (part_001:120-123, 192-207, 148-159: status
\* 200 before the fetch; server/server.go:104-113: 500 when the fetch fails)
SubdomainsRoute ==
    /\ Running /\ srvPc = "serving"
    /\ \E domain \in RequestDomains, fail \in BOOLEAN, order \in ScanOrders :
          LET subs == IF handlers = "part_001"
                      THEN FetchSubdomainsFromDatabase(store, domain, order)
                      ELSE FetchDomainWithSubdomains(store, domain, order)
          IN
          hresp' =
            IF ~fail
            THEN Response("subdomains", <<>>, <<>>, domain, 200, FALSE,
                          <<subs>>, TRUE, FALSE)
            ELSE IF handlers = "part_001"
            THEN Response("subdomains", <<>>, <<>>, domain, 200, FALSE, <<>>,
                          TRUE, TRUE)
            ELSE Response("subdomains", <<>>, <<>>, domain, 500, TRUE, <<>>,
                          TRUE, TRUE)
    /\ UNCHANGED <<proc, batchSize, feed, mainVars, flow, admitted, schema, rlVars, handlers, supVars, srvVars,
                   lVars, mpVars, wVars, rawMessages, domains>>

(***************************************************************************)
(* Specifications.                                                         *)
(***************************************************************************)
Next ==
    \/ SupSignal \/ SupShutdown \/ SupCloseStop \/ SupCloseRaw
    \/ SupCloseDomains \/ SupWait
    \/ SrvListen \/ SrvDone
    \/ ListenTop \/ ListenDial \/ ListenSleep \/ ListenRead \/ ListenReadErr
    \/ ListenSend
    \/ MPRecv \/ MPSend \/ MPRangeEnd \/ MPFlush
    \/ WRecv \/ WRangeEnd \/ WBegin \/ WInsert \/ WCommit \/ WRollback
    \/ WSleep \/ WAfter

Spec == Init /\ [][Next]_vars


\* the scheduler runs every task that can take a step; the arrival of a signal
\* and what the websocket delivers (a frame, an error, nothing) are up to the
\* environment
FairSpec ==
    /\ Spec
    /\ WF_vars(SupShutdown) /\ WF_vars(SupCloseStop) /\ WF_vars(SupCloseRaw)
    /\ WF_vars(SupCloseDomains) /\ WF_vars(SupWait)
    /\ WF_vars(SrvListen) /\ WF_vars(SrvDone)
    /\ WF_vars(ListenTop) /\ WF_vars(ListenDial) /\ WF_vars(ListenSleep)
    /\ WF_vars(ListenSend)
    /\ WF_vars(MPRecv) /\ WF_vars(MPSend) /\ WF_vars(MPRangeEnd) /\ WF_vars(MPFlush)
    /\ WF_vars(WRecv) /\ WF_vars(WRangeEnd) /\ WF_vars(WBegin) /\ WF_vars(WInsert)
    /\ WF_vars(WCommit) /\ WF_vars(WRollback) /\ WF_vars(WSleep) /\ WF_vars(WAfter)

\* The Message Processor fed by a connected Stream Consumer: the first frame is
\* any frame of AllFrames, under every batch size.
InitMP ==
    /\ InitCommon
    /\ NewRateLimiter
    /\ handlers = "part_001"
    /\ batchSize \in BatchSizes
    /\ feed = "all"
    /\ faults = MaxFaults
    /\ rawMessages = <<>>
    /\ srvPc = "serving"
    /\ lPc = "read"

NextMP == ListenRead \/ ListenSend \/ MPRecv \/ MPSend

SpecMP == InitMP /\ [][NextMP]_vars

\* the HTTP server with its rate limiter, serving (part_001:74-146)
InitRL ==
    /\ InitCommon
    /\ NewRateLimiter
    /\ handlers = "part_001"
    /\ batchSize = PipeBatchSize
    /\ feed = "pipe"
    /\ faults = MaxFaults
    /\ rawMessages = <<>>
    /\ srvPc = "serving"
    /\ lPc = "top"

NextRL == Tick \/ RateLimit

\* entries as earlier requests left them: none, a fresh one, and one that
\* has counted IntBits requests
EntriesBefore ==
    {NoVisit,
     [visited |-> TRUE, count |-> 1, lastUpdate |-> 0],
     [visited |-> TRUE, count |-> IntBits, lastUpdate |-> 0]}

\* the server serving, with entries of earlier requests in the map
InitRLC ==
    /\ InitCommon
    /\ handlers = "part_001"
    /\ visits \in [ClientIPs -> EntriesBefore]
    /\ now = 0
    /\ resp = [ip |-> "", status |-> 0, branch |-> "", seq |-> 0]
    /\ NoRequests
    /\ admitted = [ip \in ClientIPs |-> 0]
    /\ batchSize = PipeBatchSize
    /\ feed = "pipe"
    /\ faults = MaxFaults
    /\ rawMessages = <<>>
    /\ srvPc = "serving"
    /\ lPc = "top"

NextRLC == Tick \/ RLArrive \/ RLLock \/ RLLookup \/ RLUpdate \/ RLUnlock

SpecRLC == InitRLC /\ [][NextRLC]_vars

(***************************************************************************)
(* The routes serving while the Writer commits a batch.                    *)
(***************************************************************************)
\* the tasks run and the server serves
Serving ==
    /\ proc = "running"
    /\ batchSize = PipeBatchSize
    /\ supPc = "sigwait" /\ steps = <<>>
    /\ stopProcessing = FALSE /\ rawClosed = FALSE /\ domainsClosed = FALSE
    /\ srvShut = FALSE /\ srvPc = "serving"
    /\ rawMessages = <<>> /\ domains = <<>>
    /\ lPc = "read" /\ message = <<>> /\ nFrames = 0
    /\ connRead = <<>> /\ connEnq = <<>> /\ failed = FALSE
    /\ mpPc = "recv" /\ batch = <<>> /\ mpFrame = <<>> /\ mpOut = <<>>
    /\ nSent = 0
    /\ wPc = "recv" /\ wBatch = <<>> /\ attempt = 0 /\ outerErr = FALSE
    /\ tx = <<>>
    /\ faults = MaxFaults
    /\ wCommitted = FALSE /\ wLogs = {} /\ fate = <<>>
    /\ sigBatch = <<>> /\ sigResolved = 0
    /\ NewRateLimiter
    /\ handlers \in {"part_001", "server.go"}
    /\ hresp = NoResponse
    /\ Started
    /\ flow = NoFlow

\* the routes over the stores a run of the Writer can have left
InitHTTP ==
    /\ Serving
    /\ feed = "all"
    /\ store \in Stores

NextHTTP == DomainsRoute \/ CertUpdatesRoute \/ SubdomainsRoute

SpecHTTP == InitHTTP /\ [][NextHTTP]_vars

\* the routes beside the ingestion path, from an empty store
InitSW ==
    /\ Serving
    /\ feed = "pipe"
    /\ store = {}

NextSW ==
    \/ DomainsRoute \/ CertUpdatesRoute \/ SubdomainsRoute
    \/ ListenRead \/ ListenSend \/ MPRecv \/ MPSend
    \/ WRecv \/ WBegin \/ WInsert \/ WCommit \/ WRollback \/ WSleep \/ WAfter

SpecSW == InitSW /\ [][NextSW]_vars

(***************************************************************************)
(* main before the tasks start (main.go:357-476): the log file, the        *)
(* configuration, the -h flag, the certificate files and the database.     *)
(* log.Fatalf ends the process with status 1; a return from main ends it   *)
(* with status 0.                                                          *)
(***************************************************************************)
Fatalf(msg) ==
    /\ proc' = "fatal"
    /\ mainOut' = mainOut \cup {msg}
    /\ UNCHANGED mainPc

MainReturn(out) ==
    /\ proc' = "exit0"
    /\ mainOut' = mainOut \cup {out}
    /\ UNCHANGED mainPc

MainGoto(pc) ==
    /\ mainPc' = pc
    /\ UNCHANGED <<proc, mainOut>>

\* the log directory and the log file (main.go:359-372)
MainLogFile ==
    /\ proc = "running" /\ mainPc = "logfile"
    /\ \E r \in {"ok", "mkdir", "open"} :
          CASE r = "mkdir" ->
                 Fatalf("Failed to create directory for log file")
            [] r = "open" -> Fatalf("Failed to open log file")
            [] OTHER -> MainGoto("config")
    /\ UNCHANGED <<batchSize, feed, flow, admitted, schema, env, supVars, srvVars, lVars, mpVars,
                   wVars, rawMessages, domains, rlVars, httpVars>>

\* LoadConfig (main.go:380-383)
MainConfig ==
    /\ proc = "running" /\ mainPc = "config"
    /\ \E ok \in BOOLEAN :
          IF ok THEN MainGoto("help") ELSE Fatalf("Failed to load config")
    /\ UNCHANGED <<batchSize, feed, flow, admitted, schema, env, supVars, srvVars, lVars, mpVars,
                   wVars, rawMessages, domains, rlVars, httpVars>>

\* the -h flag (main.go:388-396)
MainHelp ==
    /\ proc = "running" /\ mainPc = "help"
    /\ IF env.help THEN MainReturn("usage") ELSE MainGoto("cert")
    /\ UNCHANGED <<batchSize, feed, flow, admitted, schema, env, supVars, srvVars, lVars, mpVars,
                   wVars, rawMessages, domains, rlVars, httpVars>>

\* cert, cert/cert.pem or cert/key.pem is missing
CertMissing == ~ (env.certDir /\ env.certFile /\ env.keyFile)

\* the three os.Stat checks, each followed by printInstructions and a return
\* (main.go:398-416)
MainCert ==
    /\ proc = "running" /\ mainPc = "cert"
    /\ IF CertMissing THEN MainReturn("instructions") ELSE MainGoto("dbdir")
    /\ UNCHANGED <<batchSize, feed, flow, admitted, schema, env, supVars, srvVars, lVars, mpVars,
                   wVars, rawMessages, domains, rlVars, httpVars>>

\* the directory of the database file (main.go:418-424): made when it is
\* missing, which only happens when the file is missing too
MainDbDir ==
    /\ proc = "running" /\ mainPc = "dbdir"
    /\ \E r \in {"exists", "made", "mkdir"} :
          IF r = "mkdir" /\ env.dbFile = "missing"
             THEN Fatalf("Failed to create directory for database")
             ELSE MainGoto("db")
    /\ UNCHANGED <<batchSize, feed, flow, admitted, schema, env, supVars, srvVars, lVars, mpVars,
                   wVars, rawMessages, domains, rlVars, httpVars>>

\* the database (main.go:426-455): a missing file is created, opened and set
\* up, each failure fatal; an existing file is only handed to sql.Open, which
\* validates its arguments and opens no connection, so it returns no error
\* whatever the file holds
MainDb ==
    /\ proc = "running" /\ mainPc = "db"
    /\ \E r \in {"ok", "create", "setup"} :
          IF env.dbFile = "missing"
             THEN CASE r = "create" ->
                         /\ Fatalf("Failed to create database file")
                         /\ schema' = schema
                    [] r = "setup" ->
                         /\ Fatalf("Failed to setup database")
                         /\ schema' = schema
                    [] OTHER -> /\ MainGoto("start")
                                /\ schema' = SetupDatabase(schema)
             ELSE /\ MainGoto("start")
                  /\ schema' = schema
    /\ UNCHANGED <<batchSize, feed, flow, admitted, env, supVars, srvVars,
                   lVars, mpVars, wVars, rawMessages, domains, rlVars,
                   httpVars>>

\* the channels are made and the four tasks started (main.go:457-476)
MainStart ==
    /\ proc = "running" /\ mainPc = "start"
    /\ MainGoto("started")
    /\ UNCHANGED <<batchSize, feed, flow, admitted, schema, env, supVars, srvVars, lVars, mpVars,
                   wVars, rawMessages, domains, rlVars, httpVars>>

InitStart ==
    /\ InitTasks
    /\ NewRateLimiter
    /\ handlers = "part_001"
    /\ batchSize = PipeBatchSize
    /\ feed = "pipe"
    /\ faults = MaxFaults
    /\ rawMessages = <<>>
    /\ srvPc = "starting"
    /\ lPc = "top"
    /\ mainPc = "logfile"
    /\ env \in Environments
    /\ schema \in Databases(env.dbFile)
    /\ mainOut = {}

NextStart ==
    \/ MainLogFile \/ MainConfig \/ MainHelp \/ MainCert \/ MainDbDir
    \/ MainDb \/ MainStart

SpecStart == InitStart /\ [][NextStart]_vars

SpecRL == InitRL /\ [][NextRL]_vars

(***************************************************************************)
(* The limit-based limiter of server/server.go (server.go:33-60), used by  *)
(* its StartServer as RateLimit(100, 1*time.Hour) (server.go:71).          *)
(***************************************************************************)
\* variant: the test before the increment
LimitRateLimit_TestFirst ==
    /\ Running /\ srvPc = "serving"
    /\ \E clientIP \in ClientIPs :
          LET data == visits[clientIP] IN
          IF ~data.visited
          THEN /\ visits' = [visits EXCEPT ![clientIP] =
                    [visited |-> TRUE, count |-> 1, lastUpdate |-> now]]
               /\ resp' = Respond(clientIP, 200, "new")
               /\ admitted' = [admitted EXCEPT ![clientIP] = 1]
          ELSE IF now - data.lastUpdate > ResetTime
          THEN /\ visits' = [visits EXCEPT ![clientIP].count = 1,
                                           ![clientIP].lastUpdate = now]
               /\ resp' = Respond(clientIP, 200, "reset")
               /\ admitted' = [admitted EXCEPT ![clientIP] = 1]
          ELSE /\ data.count < Limit + MaxOver
               /\ visits' = [visits EXCEPT ![clientIP].count = data.count + 1]
               /\ IF data.count > Limit
                  THEN /\ resp' = Respond(clientIP, 429, "reject")
                       /\ admitted' = admitted
                  ELSE /\ resp' = Respond(clientIP, 200, "admit")
                       /\ admitted' = [admitted EXCEPT ![clientIP] = @ + 1]
    /\ UNCHANGED <<proc, batchSize, feed, mainVars, flow, schema, httpVars, supVars,
                   srvVars, lVars, mpVars, wVars, rawMessages, domains, now,
                   rcVars>>

\* one request through the middleware (server.go:34-59): the count is
\* incremented first and then compared with the limit, so that a rejected
\* request counts too; 200 stands for c.Next()
LimitRateLimit ==
    /\ Running /\ srvPc = "serving"
    /\ \E clientIP \in ClientIPs :
          LET data == visits[clientIP] IN
          IF ~data.visited
          THEN /\ visits' = [visits EXCEPT ![clientIP] =
                    [visited |-> TRUE, count |-> 1, lastUpdate |-> now]]
               /\ resp' = Respond(clientIP, 200, "new")
               /\ admitted' = [admitted EXCEPT ![clientIP] = 1]
          ELSE IF now - data.lastUpdate > ResetTime
          THEN /\ visits' = [visits EXCEPT ![clientIP].count = 1,
                                           ![clientIP].lastUpdate = now]
               /\ resp' = Respond(clientIP, 200, "reset")
               /\ admitted' = [admitted EXCEPT ![clientIP] = 1]
          ELSE /\ data.count < Limit + MaxOver
               /\ visits' = [visits EXCEPT ![clientIP].count = data.count + 1]
               /\ IF data.count + 1 > Limit
                  THEN /\ resp' = Respond(clientIP, 429, "reject")
                       /\ admitted' = admitted
                  ELSE /\ resp' = Respond(clientIP, 200, "admit")
                       /\ admitted' = [admitted EXCEPT ![clientIP] = @ + 1]
    /\ UNCHANGED <<proc, batchSize, feed, mainVars, flow, schema, httpVars, supVars,
                   srvVars, lVars, mpVars, wVars, rawMessages, domains, now,
                   rcVars>>

\* the HTTP server of server/server.go with its limiter, serving
InitRLS ==
    /\ InitCommon
    /\ NewRateLimiter
    /\ handlers = "server.go"
    /\ batchSize = PipeBatchSize
    /\ feed = "pipe"
    /\ faults = MaxFaults
    /\ rawMessages = <<>>
    /\ srvPc = "serving"
    /\ lPc = "top"

NextRLS == Tick \/ LimitRateLimit

SpecRLS == InitRLS /\ [][NextRLS]_vars


(***************************************************************************)
(* Properties: shutdown (Spec, FairSpec).                                  *)
(***************************************************************************)
Exited == proc # "running"

Signalled == supPc # "sigwait"

Stored(domainInfo) == \E r \in store : r.Domain = domainInfo.Domain

\* C1: Final flush on shutdown. When the process has ended after a signal that
\* found records in the Message Processor's partial buffer (the HTTP server
\* having shut down within its deadline and the Stream Consumer not having
\* failed), the process ended by returning from main, without a panic, and
\* every one of those records is in the store.
C1_FinalFlushCommitted ==
    (Exited /\ Signalled /\ steps # <<>> /\ lPc # "panic" /\ sigBatch # <<>>)
        => /\ proc = "exit0"
           /\ \A i \in 1..Len(sigBatch) : Stored(sigBatch[i])

\* the writer has accounted for a batch: it committed it or wrote an error line
Accounted(f) == f.committed \/ f.logs # {}

\* C2: No batch disappears silently. When the process has ended after a signal,
\* no batch is left in the record-batch queue or in the Writer's hands, and
\* every batch the Writer finished since the signal was committed or logged.
C2_InFlightAccounted ==
    (Exited /\ Signalled)
        => /\ domains = <<>>
           /\ wPc \in {"recv", "done"}
           /\ Len(fate) = nSent
           /\ \A i \in (sigResolved + 1)..Len(fate) : Accounted(fate[i])

\* C3: Termination after shutdown. Once the signal has been received and the
\* HTTP server has shut down, eventually wg.Wait() returns (all four tasks
\* have terminated), unless a task has brought the process down by a panic.
C3_ShutdownTerminates == (steps # <<>>) ~> (supPc = "done" \/ proc = "panic")

ShutdownOrder == <<"shutdown", "closeStop", "closeRaw", "closeDomains", "wait">>

\* C4: Order of the shutdown steps. The steps main has performed are always an
\* initial part of: HTTP shutdown, close(stopProcessing), close(rawMessages),
\* close(domains), wait (so each at most once and in this order); when main
\* returns, all five were performed; domains is never closed before rawMessages.
C4_ShutdownOrder ==
    /\ Len(steps) <= Len(ShutdownOrder)
    /\ steps = SubSeq(ShutdownOrder, 1, Len(steps))
    /\ stopProcessing <=> (Len(steps) >= 2)
    /\ rawClosed <=> (Len(steps) >= 3)
    /\ domainsClosed <=> (Len(steps) >= 4)
    /\ domainsClosed => rawClosed
    /\ supPc = "done" => steps = ShutdownOrder

C4_Witness == supPc = "done" /\ proc = "exit0" /\ steps = ShutdownOrder

(***************************************************************************)
(* Properties: Stream Consumer (Spec).                                     *)
(***************************************************************************)
\* C5: Frame order. On the current connection the frames sent to rawMessages,
\* followed by the frame read and not yet sent, are exactly the frames read, in
\* order; a frame is held only at the send, and the send fails (panic) only
\* after the cancellation.
C5_FramesInOrder ==
    /\ connRead = connEnq \o message
    /\ lPc \notin {"send", "panic"} => message = <<>>
    /\ lPc = "send" => Len(message) = 1
    /\ lPc = "panic" => stopProcessing

C5_Witness ==
    /\ Len(connEnq) = 2
    /\ connEnq[1] # connEnq[2]
    /\ connRead = connEnq

\* C6: The consumer never gives up. ListenForEvents returns only from the top
\* of its outer loop with the cancellation signal closed; a failed dial goes
\* to the sleep and then to the top, a read error goes to the top, and the top
\* dials again unless the signal is closed.
C6_NeverGivesUp ==
    [][/\ (lPc' = "done" /\ lPc # "done") => (lPc = "top" /\ stopProcessing)
       /\ (lPc = "top" /\ lPc' # "top")
             => lPc' = (IF stopProcessing THEN "done" ELSE "dial")
       /\ (lPc = "dial" /\ lPc' # "dial") => lPc' \in {"read", "sleep"}
       /\ (lPc = "sleep" /\ lPc' # "sleep") => lPc' = "top"
       /\ (lPc = "read" /\ lPc' \notin {"read", "send"}) => lPc' = "top"
      ]_vars

C6_Witness == failed /\ lPc = "read" /\ connRead # <<>>

\* C7: Bounded queues with backpressure. Both queues never hold more than
\* their capacity; while rawMessages is full and the consumer is at its send,
\* the consumer reads nothing further and keeps the frame it holds.
C7_BoundedBackpressure ==
    /\ [](Len(rawMessages) <= QueueCap /\ Len(domains) <= QueueCap)
    /\ [][(lPc = "send" /\ Len(rawMessages) = QueueCap)
             => /\ connRead' = connRead
                /\ message' = message
                /\ nFrames' = nFrames
                /\ lPc' \in {"send", "panic"}
                /\ (lPc' = "panic" => rawClosed)
         ]_vars

C7_Witness ==
    /\ lPc = "send" /\ Len(message) = 1
    /\ Len(rawMessages) = QueueCap /\ ~rawClosed

(***************************************************************************)
(* Properties: Message Processor, frame by frame (SpecMP).                 *)
(***************************************************************************)
\* the malformations listed for a frame
Malformed(f) ==
    \/ ~f.json
    \/ f.data # "obj"
    \/ f.leaf_cert # "obj"
    \/ f.all_domains.t # "arr"
    \/ f.not_before.t # "num"
    \/ f.not_after.t # "num"
    \/ f.serial_number.t # "str"
    \/ f.fingerprint.t # "str"

\* C8: Malformed-frame tolerance. For a malformed frame the Message Processor
\* emits no record and keeps running.
C8_MalformedSkipped ==
    (mpFrame # <<>> /\ Malformed(mpFrame[1]))
        => (mpOut = <<>> /\ mpPc # "panic" /\ proc = "running")

\* the frame has the shape of the upstream envelope: every member present and
\* of its type, all_domains an array of strings, the times whole numbers
WellFormed(f) ==
    /\ ~Malformed(f)
    /\ \A i \in 1..Len(f.all_domains.a) : f.all_domains.a[i].t = "str"
    /\ ~f.not_before.frac /\ ~f.not_after.frac

ListsDomain(f, d) ==
    \E i \in 1..Len(f.all_domains.a) : f.all_domains.a[i] = EStr(d)

\* C9: Wildcard flag. For a well-formed frame, the record for d has
\* wildcard = true exactly when all_domains also lists *.d, wherever it stands.
C9_WildcardFlag ==
    (mpFrame # <<>> /\ WellFormed(mpFrame[1]))
        => \A i \in 1..Len(mpOut) :
              mpOut[i].Wildcard
                 <=> ListsDomain(mpFrame[1], WildcardPrefix \o mpOut[i].Domain)

IsBare(e) == ~HasPrefix(e.d, WildcardPrefix)

\* C10: One record per bare entry. For a well-formed frame the records are, in
\* list order, one per all_domains entry not starting with "*.", none has a
\* domain starting with "*.", and each carries the frame's not_before,
\* not_after, serial_number and fingerprint.
C10_OneRecordPerBareEntry ==
    (mpFrame # <<>> /\ WellFormed(mpFrame[1]))
        => LET f == mpFrame[1]
               bare == SelectSeq(f.all_domains.a, IsBare)
           IN /\ mpPc # "panic"
              /\ Len(mpOut) = Len(bare)
              /\ \A i \in 1..Len(mpOut) :
                    /\ i <= Len(bare) => mpOut[i].Domain = bare[i].d
                    /\ ~HasPrefix(mpOut[i].Domain, WildcardPrefix)
                    /\ mpOut[i].NotBefore = f.not_before.n
                    /\ mpOut[i].NotAfter = f.not_after.n
                    /\ mpOut[i].SerialNumber = f.serial_number.s
                    /\ mpOut[i].Fingerprint = f.fingerprint.s

C10_Witness ==
    /\ mpFrame # <<>> /\ WellFormed(mpFrame[1])
    /\ Len(mpFrame[1].all_domains.a) = 3
    /\ Len(mpOut) = 2
    /\ mpOut[1].Domain # mpOut[2].Domain


(***************************************************************************)
(* The Writer during shutdown: main has closed rawMessages, the Stream     *)
(* Consumer has returned, the Message Processor has left its range loop    *)
(* with a partial batch to flush, and one full batch waits in domains.     *)
(***************************************************************************)
WRecords == {RecOf(D_ac, "sn"), RecOf(D_ac, "s2"), RecOf(D_bac, "sn"),
             RecOf(D_c, "sn")}

FullBatches == [1..PipeBatchSize -> WRecords]

PartialBatches == UNION {[1..n -> WRecords] : n \in 1..(PipeBatchSize - 1)}

InitW ==
    /\ proc = "running"
    /\ batchSize = PipeBatchSize
    /\ feed = "pipe"
    /\ supPc = "closeDomains"
    /\ steps = <<"shutdown", "closeStop", "closeRaw">>
    /\ stopProcessing = TRUE /\ rawClosed = TRUE /\ domainsClosed = FALSE
    /\ srvShut = TRUE /\ srvPc = "done"
    /\ rawMessages = <<>>
    /\ lPc = "done" /\ message = <<>> /\ nFrames = 0
    /\ connRead = <<>> /\ connEnq = <<>> /\ failed = FALSE
    /\ mpPc = "flush" /\ mpFrame = <<>> /\ mpOut = <<>>
    /\ batch \in PartialBatches
    /\ domains \in {<<b>> : b \in FullBatches}
    /\ nSent = 1
    /\ wPc = "recv" /\ wBatch = <<>> /\ attempt = 0 /\ outerErr = FALSE
    /\ tx = <<>> /\ store = {}
    /\ faults = MaxWriterFaults
    /\ wCommitted = FALSE /\ wLogs = {} /\ fate = <<>>
    /\ sigBatch = batch /\ sigResolved = 0
    /\ NewRateLimiter
    /\ handlers = "part_001" /\ hresp = NoResponse
    /\ Started
    /\ flow = NoFlow

NextW ==
    \/ SupCloseDomains \/ SupWait \/ MPFlush
    \/ WRecv \/ WRangeEnd \/ WBegin \/ WInsert \/ WCommit \/ WRollback
    \/ WSleep \/ WAfter

SpecW == InitW /\ [][NextW]_vars

\* C11: Batch boundary. With a batch size of at least 1, every batch the
\* batch-size test hands to the record-batch queue has exactly batchSize
\* records, whatever the number of domains the frames carry.
C11_BatchBoundary ==
    batchSize >= 1
        => \A i \in 1..Len(domains) : Len(domains[i]) = batchSize



\* C12: First-write-wins and immutability. The store holds at most one row
\* per domain, and every row of the store is kept unchanged by every step, in
\* the store and in the open transaction: a later insert of the same domain,
\* in the same or a later batch, alters no field, and nothing updates or
\* deletes a row.
C12_FirstWriteWins ==
    [][/\ \A r \in store : r \in store'
       /\ \A r \in store : tx' # <<>> => r \in tx'[1]
       /\ \A r1, r2 \in store' : r1.Domain = r2.Domain => r1 = r2]_vars

\* two batches were committed, and the later one carried a domain that was
\* already stored, with other certificate fields
C12_Witness ==
    /\ wPc = "recv" /\ Len(fate) = 2
    /\ fate[1].committed /\ fate[2].committed
    /\ \E r \in store : \E i \in 1..Len(wBatch) :
          /\ r.Domain = wBatch[i].Domain
          /\ r.SerialNumber # wBatch[i].SerialNumber

\* C13: Apex invariant. Every stored row has is_apex exactly when its domain
\* has two dot-separated labels, and every apex row has an empty parent.
C13_ApexInvariant ==
    \A r \in store :
        /\ r.IsApex <=> (Len(Split(r.Domain)) = 2)
        /\ r.IsApex => r.ParentDomain = <<>>

C13_Witness == \E r1, r2 \in store : r1.IsApex /\ ~r2.IsApex

\* p is the last two labels of d joined by a dot: a suffix of d that holds
\* exactly one dot and is all of d or follows a dot of d
LastTwoLabels(p, d) ==
    /\ IsSuffix(p, d)
    /\ Count(p, ".") = 1
    /\ Len(p) < Len(d) => d[Len(d) - Len(p)] = "."

\* C14 as stated: Parent derivation. For every stored row that is not apex,
\* a single-label domain included, parent_domain is the last two labels of
\* the domain joined by a dot, and a suffix of the domain.
C14_ParentOfEveryNonApex ==
    \A r \in store : ~r.IsApex => LastTwoLabels(r.ParentDomain, r.Domain)

\* C14: Parent derivation. For every stored row of three or more labels,
\* parent_domain is the last two labels of the domain joined by a dot, and a
\* suffix of the domain; for a row of fewer than three labels, a single-label
\* domain included, parent_domain is empty.
C14_ParentDerivation ==
    \A r \in store :
        IF Len(Split(r.Domain)) > 2
        THEN LastTwoLabels(r.ParentDomain, r.Domain)
        ELSE r.ParentDomain = <<>>

C14_Witness ==
    \E r1, r2 \in store :
        /\ Len(Split(r1.Domain)) = 3 /\ r1.ParentDomain # <<>>
        /\ Len(Split(r2.Domain)) = 1

\* C15: Batch atomicity. Every step leaves the store as it is or adds to it
\* all the not-previously-stored rows of the batch in hand, in one step; no
\* row of an attempt whose insert failed part-way reaches the store.
C15_BatchAtomicity ==
    [][store' = store \/ store' = insertBatch(store, wBatch)]_vars

\* an insert failed part-way: the transaction holds some rows of the batch
\* and not all of them
C15_Witness ==
    /\ wPc = "rollback"
    /\ tx[1] # store
    /\ tx[1] # insertBatch(store, wBatch)

\* C16: Bounded retry. The Writer makes at most 3 attempts per batch, and a
\* batch is given up without a commit only after 3 failed attempts: every
\* failure of begin, insert or commit on attempt 1 or 2 is followed by a
\* further attempt.
C16_BoundedRetry ==
    /\ attempt <= 3
    /\ (wPc = "after" /\ ~wCommitted) => attempt = 3

\* C17: Every failed insert attempt is rolled back before the next attempt
\* begins (no transaction is open when an attempt begins), and after a
\* successful commit the Writer makes no further attempt on the batch.
C17_RollbackBeforeRetry ==
    /\ wPc = "begin" => tx = <<>>
    /\ wCommitted => wPc \in {"after", "recv", "done"}

\* a second or third attempt is about to begin after a failed insert
C17_Witness ==
    /\ wPc = "begin" /\ attempt > 0
    /\ "Retry: Error inserting batch" \in wLogs

\* C18: Dropped batch. After the attempts on a batch, committed or not, the
\* Writer goes back to take the next batch, and a commit that succeeds stores
\* every record of its batch, whatever became of earlier batches.
C18_DroppedBatchWriterGoesOn ==
    [][/\ wPc = "after" => wPc' \in {"after", "recv"}
       /\ (wPc = "commit" /\ wCommitted')
            => \A i \in 1..Len(wBatch) :
                  \E r \in store' : r.Domain = wBatch[i].Domain]_vars

\* the first batch failed three attempts and was dropped, the second one was
\* committed
C18_Witness ==
    /\ Len(fate) = 2
    /\ ~fate[1].committed
    /\ "Error committing transaction" \notin fate[1].logs
    /\ fate[2].committed
    /\ \A i \in 1..Len(wBatch) : \E r \in store : r.Domain = wBatch[i].Domain

\* C19: Rate limiter, rapid burst. When one IP fires 10 requests at once, the
\* first is admitted and later requests of the burst are rejected with 429:
\* no entry counts 10 admitted requests within the tick that opened its
\* window.
C19_BurstRejected ==
    \A ip \in ClientIPs :
        ~(visits[ip].visited /\ visits[ip].lastUpdate = now
            /\ visits[ip].count >= 10)

C21_Reset ==
    [][\A ip \in ClientIPs :
          /\ (resp' # resp /\ resp'.ip = ip /\ visits[ip].visited
                 /\ now - visits[ip].lastUpdate > ResetTime)
               => /\ resp'.status = 200
                  /\ visits'[ip] = [visited |-> TRUE, count |-> 1,
                                    lastUpdate |-> now]
          /\ visits'[ip].lastUpdate # visits[ip].lastUpdate
               => /\ resp'.ip = ip /\ resp'.status = 200
                  /\ visits'[ip].count = 1 /\ visits'[ip].lastUpdate = now
                  /\ \/ ~visits[ip].visited
                     \/ now - visits[ip].lastUpdate > ResetTime]_vars

\* an entry was reset, and another entry has counted several requests since
\* the first request of its window
C21_Witness ==
    /\ resp.branch = "reset"
    /\ visits[resp.ip].count = 1 /\ visits[resp.ip].lastUpdate = now
    /\ \E ip \in ClientIPs :
          visits[ip].count > 1 /\ visits[ip].lastUpdate < now

InCriticalSection(r) == reqs[r].pc \in {"lookup", "update", "unlock"}

\* C22: Rate limiter under concurrency. A request holds the mutex exactly
\* while it is between Lock and Unlock, on every branch (first visit, reset,
\* reject, admit), so a request that has left the middleware never holds it;
\* and whenever no write is pending the map is what the same requests give
\* run one after the other: no increment is lost.
C22_AtomicUnderMutex ==
    /\ \A r \in Requests : (mu = r) <=> InCriticalSection(r)
    /\ (\A r \in Requests : reqs[r].pc # "update") => visits = serial

\* three requests of one IP inside one window: one was admitted, one holds
\* the mutex with its increment pending, one waits for the mutex
C22_Witness ==
    \E ip \in ClientIPs : \E r1, r2, r3 \in Requests :
        /\ reqs[r1].ip = ip /\ reqs[r2].ip = ip /\ reqs[r3].ip = ip
        /\ reqs[r1].pc = "next" /\ reqs[r1].branch = "admit"
        /\ reqs[r2].pc = "update" /\ reqs[r2].branch = "admit"
        /\ reqs[r3].pc = "lock"

\* C23: When the store query fails while a handler of /v1/domains,
\* /v1/cert-updates or /v1/subdomains/:domain serves a request, the client
\* receives HTTP 500 with a JSON error body, never a 200 response.
C23_StoreFailure500 ==
    hresp.failed => hresp.status = 500 /\ hresp.error

\* the value of a query key is present and is no decimal integer
NotInteger(value) ==
    /\ value # <<>>
    /\ LET s == value[1]
           digits == IF s # <<>> /\ Head(s) \in {"+", "-"} THEN Tail(s) ELSE s
       IN digits = <<>> \/ \E i \in 1..Len(digits) : digits[i] \notin {"0", "1", "2"}

\* C24: A request to /v1/domains or /v1/cert-updates whose page or size is
\* not an integer is answered with HTTP 400 and an error body, and no store
\* query is issued for it.
C24_BadParams400 ==
    (hresp.route \in {"domains", "cert-updates"}
        /\ (NotInteger(hresp.page) \/ NotInteger(hresp.size)))
    => hresp.status = 400 /\ hresp.error /\ ~hresp.queried

\* page is absent and size is not an integer
C24_Witness ==
    /\ hresp.route = "domains" /\ hresp.page = <<>>
    /\ hresp.size = <<<<"1", "x">>>>
    /\ hresp.status = 400

\* the names at positions (p-1)*s+1 .. p*s of the sorted rows that are apex
\* and do not begin with "www."
SortedApexPage(rows, p, z) ==
    LET sorted == ByDomain({r \in rows :
                              r.IsApex /\ ~HasPrefix(r.Domain, WwwPrefix)})
        last == IF p * z > Len(sorted) THEN Len(sorted) ELSE p * z
    IN Column(SubSeq(sorted, (p - 1) * z + 1, last), "Domain")

\* C25: GET /v1/domains with page p and size s returns only domains of apex
\* rows that do not begin with "www.", at most s of them: the rows at
\* positions (p-1)*s+1 .. p*s of the alphabetically sorted apex rows.
C25_SortedPage ==
    (hresp.route = "domains" /\ hresp.status = 200 /\ ~hresp.failed)
    => LET q == parseQueryParams(hresp.page, hresp.size)
       IN (q.page >= 1 /\ q.size >= 1)
             => hresp.chunks = <<SortedApexPage(store, q.page, q.size)>>

Elements(seq) == {seq[i] : i \in 1..Len(seq)}

\* C26: GET /v1/subdomains/:domain returns the requested domain together
\* with exactly the stored domains whose parent_domain is the requested
\* domain, each once: none with another parent, none missing, and not the
\* requested domain itself.
C26_ExactSubdomains ==
    (hresp.route = "subdomains" /\ ~hresp.failed)
    => /\ hresp.status = 200
       /\ Len(hresp.chunks) = 1
       /\ LET body == hresp.chunks[1] IN
          /\ body.Domain = hresp.domain
          /\ Elements(body.Subdomains)
                = {r.Domain : r \in {x \in store : x.ParentDomain = hresp.domain}}
          /\ Len(body.Subdomains) = Cardinality(Elements(body.Subdomains))
          /\ hresp.domain \notin Elements(body.Subdomains)

\* a.c was requested from a store holding a.c, b.a.c and a row of another
\* parent
C26_Witness ==
    /\ hresp.route = "subdomains" /\ hresp.domain = D_ac /\ ~hresp.failed
    /\ hresp.chunks[1].Subdomains = <<D_bac>>
    /\ \E r \in store : r.Domain = D_ac
    /\ \E r \in store : r.Domain \notin {D_ac, D_bac}

\* C27: Single writer. The stored rows change only in a commit of the
\* Writer; a step that handles an HTTP request, served or failing, leaves the
\* store unchanged, and so does every step of the Stream Consumer and of the
\* Message Processor.
C27_SingleWriter ==
    [][/\ store' # store =>
            /\ wPc = "commit" /\ wPc' = "after" /\ wCommitted'
            /\ hresp' = hresp /\ lVars' = lVars /\ mpVars' = mpVars
       /\ hresp' # hresp => store' = store]_vars

\* a request was served from rows the Writer committed while the server
\* was serving
C27_Witness ==
    /\ store # {}
    /\ hresp.route = "domains" /\ hresp.status = 200
    /\ hresp.chunks = <<<<D_ac>>>>

\* C28: A failure of store initialisation is fatal. When the database file
\* cannot be opened as a database, main gets no further than the database
\* step; and when creating the file or SetupDatabase fails, the process ends
\* there with a non-zero status, no task started.
C28_StoreInitFatal ==
    /\ env.dbFile = "unopenable" => mainPc \notin {"start", "started"}
    /\ mainOut \cap {"Failed to create database file",
                     "Failed to setup database"} # {}
          => proc = "fatal" /\ mainPc = "db"

\* C29: Missing certificate material. When cert.pem or key.pem is missing,
\* main gets no further than the certificate check, and when it ends there it
\* has printed the instructions and the exit status is non-zero.
C29_MissingCertExit ==
    CertMissing =>
        /\ mainPc \notin {"dbdir", "db", "start", "started"}
        /\ (mainPc = "cert" /\ proc # "running")
              => ("instructions" \in mainOut /\ proc = "fatal")

RECURSIVE Concat(_)
Concat(batches) ==
    IF batches = <<>> THEN <<>> ELSE Head(batches) \o Concat(Tail(batches))

\* the records still to be handed downstream: the buffer, until the Message
\* Processor has returned
Buffered == IF mpPc = "done" THEN <<>> ELSE batch

\* the batches handed downstream, followed by the buffer, are the records
\* extracted so far, in order
C30_InOrder == Concat(flow.handed) \o Buffered = flow.extracted

\* the channel is a queue the Message Processor appends to and the Writer
\* takes the head of, and a commit adds the rows of the batch in batch order
C30_WriterOrder ==
    /\ domains' # domains =>
          \/ /\ mpPc \in {"send", "flush"}
             /\ domains' = Append(domains, batch)
          \/ /\ wPc = "recv" /\ domains # <<>>
             /\ wBatch' = Head(domains) /\ domains' = Tail(domains)
    /\ store' # store => store' = insertBatch(store, wBatch)

\* C30: Record conservation and order. At every step the batches handed
\* downstream followed by the buffer are the extracted records in order;
\* once the Message Processor has ended, the batches handed downstream,
\* the final flush included, are all the extracted records; and the Writer
\* takes the batches and inserts their rows in that order.
C30_Conservation ==
    [][/\ C30_InOrder'
       /\ mpPc' \in {"done", "panic"}
             => Concat(flow'.handed) = flow'.extracted
       /\ C30_WriterOrder]_vars

\* the Stream Consumer executes its send with the raw-frame queue closed
C31_ConsumerSendsOnClosed ==
    lPc = "send" /\ rawClosed /\ lPc' # lPc

\* the Message Processor executes a send, in the loop or the final one, with
\* the record-batch queue closed
C31_ProcessorSendsOnClosed ==
    mpPc \in {"send", "flush"} /\ domainsClosed /\ mpPc' # mpPc

\* C31: No send on a closed queue. No step of the Stream Consumer is a send
\* on the raw-frame queue after main has closed it, and no step of the
\* Message Processor is a send on the record-batch queue after main has
\* closed it.
C31_NoSendOnClosed ==
    [][~C31_ConsumerSendsOnClosed /\ ~C31_ProcessorSendsOnClosed]_vars

\* C37: No empty batch. Under every configured batchSize, 0 included, no
\* batch the Message Processor has handed to the record-batch queue is empty.
C37_NoEmptyBatch ==
    \A i \in 1..Len(flow.handed) : flow.handed[i] # <<>>

\* C32: On cancellation the Message Processor flushes and exits. Once the
\* cancellation signal is closed, a Message Processor that holds a partial
\* buffer and has no frame to take can leave its loop for the final flush,
\* whether or not the raw-frame queue has been closed.
C32_FlushOnCancel ==
    (Running /\ stopProcessing /\ mpPc = "recv" /\ rawMessages = <<>>
       /\ batch # <<>>)
        => ENABLED MPRangeEnd

\* C33: Retry delay. A further attempt on the same batch starts only out of
\* the 2-second sleep, whichever step of the earlier attempt failed, and the
\* sleep is entered only from the rollback of a failed attempt, never after
\* a commit.
C33_RetryDelay ==
    [][/\ (wPc' = "begin" /\ attempt' = attempt + 1) => wPc = "sleep"
       /\ (wPc' = "sleep" /\ wPc # "sleep") => wPc = "rollback"]_vars

\* C34: Final error log. A batch whose three attempts all failed, none of
\* them in the commit, has the line "Final error after retries" among its
\* log lines, and no committed batch has it.
C34_FinalErrorLogged ==
    \A i \in 1..Len(fate) :
        /\ (~fate[i].committed
              /\ "Error committing transaction" \notin fate[i].logs)
             => "Final error after retries" \in fate[i].logs
        /\ fate[i].committed
             => "Final error after retries" \notin fate[i].logs

\* C35: A rejected request leaves the limiter unchanged. A request answered
\* 429 changes no entry of the map, and the count of an entry grows only in
\* a request of that IP that is admitted.
C35_RejectLeavesUnchanged ==
    [][/\ (resp' # resp /\ resp'.status = 429) => visits' = visits
       /\ \A ip \in ClientIPs :
             visits'[ip].count > visits[ip].count
                => (resp' # resp /\ resp'.ip = ip /\ resp'.status = 200)]_vars

\* a request was rejected within the window of its entry, after the clock
\* had moved on from the entry's anchor
C35_Witness ==
    /\ resp.status = 429 /\ resp.branch = "reject"
    /\ visits[resp.ip].visited
    /\ now > visits[resp.ip].lastUpdate

\* C36: Limit-based limiter. Between the creation or reset of an IP's entry
\* and its next reset at most Limit requests of that IP are admitted, and a
\* request of an IP that arrives in the window after Limit were admitted is
\* answered 429.
C36_AtMostLimit ==
    [][\A ip \in ClientIPs :
          /\ admitted'[ip] <= Limit
          /\ (/\ resp' # resp /\ resp'.ip = ip
              /\ visits[ip].visited
              /\ now - visits[ip].lastUpdate <= ResetTime
              /\ admitted[ip] >= Limit)
                => resp'.status = 429]_vars

\* an IP had Limit requests admitted in one window and two more rejected
C36_Witness ==
    \E ip \in ClientIPs :
        /\ admitted[ip] = Limit
        /\ visits[ip].count = Limit + 2
        /\ resp.ip = ip /\ resp.status = 429

\* C38: Pagination bounds. Every store query issued for /v1/domains or
\* /v1/cert-updates has page >= 1 and size >= 1, hence a limit of at least
\* 1 and a non-negative offset (page-1)*size.
C38_PaginationBounds ==
    (hresp.route \in {"domains", "cert-updates"} /\ hresp.queried) =>
        LET q == parseQueryParams(hresp.page, hresp.size) IN
        /\ q.page >= 1 /\ q.size >= 1
        /\ (q.page - 1) * q.size >= 0

\* C39: Schema initialisation. When main has passed the database step,
\* whether the file was new or existed, table domains exists with every
\* column of the schema, the rows it had are kept, and a second run of the
\* initialisation changes nothing.
C39_SchemaInitialised ==
    [][(mainPc = "db" /\ mainPc' = "start") =>
          /\ schema'.exists /\ schema'.columns = Columns
          /\ schema'.rows = schema.rows
          /\ SetupDatabase(schema') = schema']_vars

====
